---------------------------- MODULE Spec2Model ----------------------------
(***************************************************************************)
(* A model of the NYC Contract Awards Explorer (vr00n/crol-mayor111):      *)
(* js/api.js (API), js/filters.js (Filters), js/app.js (App),              *)
(* js/sankey.js (SankeyChart), js/matrix.js (MatrixChart), js/utils.js.    *)
(*                                                                         *)
(* Conventions of the model                                                *)
(*  - A JavaScript string is a sequence of one-character strings, so that  *)
(*    concatenation, substring search and case folding are computed.       *)
(*  - An absent (undefined) text field and the empty string are both the   *)
(*    empty sequence: every use the code makes of a text field             *)
(*    (x || default, field && ..., filter(Boolean)) treats the two alike,  *)
(*    and no selection list ever holds '' or undefined.                    *)
(*  - Amounts are integers (the doubles the model draws are small whole    *)
(*    numbers, on which double arithmetic is exact).                       *)
(*  - A JavaScript Map is the sequence of its entries in insertion order.  *)
(*  - Array indices in values (link.source, node.index) are 0-based as in  *)
(*    the code; TLA+ sequences are 1-based.                                *)
(***************************************************************************)
EXTENDS Integers, Sequences, FiniteSets, TLC

VARIABLES
    rawData,            \* App.rawData
    filteredData,       \* App.filteredData
    activeTab,          \* App.activeTab
    searchQuery,        \* Filters.state.searchQuery
    selectedVendors,    \* Filters.state.selectedVendors
    selectedAgencies,   \* Filters.state.selectedAgencies
    sortBy,             \* Filters.state.sortBy
    stats,              \* header statistics written by Utils.updateStats
    sankeyData,         \* last value returned by API.aggregateForSankey
    matrixData,         \* last value returned by API.aggregateForMatrix
    sankeyChart,        \* #sankey-chart and the fields of SankeyChart: the content
                        \* of the container (what SankeyChart.render drew in it,
                        \* an empty state or an error), its width, this.svg,
                        \* this.width, this.lastData, the resize listeners
    matrixChart,        \* the content of #matrix-chart: the table written by
                        \* MatrixChart.render, an empty state or an error
    loading,            \* the loading overlay is visible
    calls,              \* the API.fetchAll calls, in the order issued
    timers,             \* the window's timers: the next handle of setTimeout and
                        \* the timers set and neither cleared nor run
    timeout,            \* the variable timeout of the closure that Utils.debounce
                        \* returned to Filters.bindSearch
    burst,              \* history of the calls of the debounced search function
    frame               \* the call of API.aggregateForSankey or
                        \* API.aggregateForMatrix that is running, with its
                        \* arguments and its Maps, and the values returned
                        \* by the calls made so far

vars == << rawData, filteredData, activeTab, searchQuery, selectedVendors,
           selectedAgencies, sortBy, stats, sankeyData, matrixData,
           sankeyChart, matrixChart, loading, calls, timers, timeout, burst,
           frame >>

\* no timer set yet; handles start at 1
NoTimers == [ next |-> 1, active |-> << >> ]
\* let timeout;  (undefined)
NoTimeout == 0
\* typed: calls made so far; pending: calls made since the wrapped function last
\* ran; last: the argument of the latest call; idle: ticks since the latest
\* call, counted up to the wait; started: calls made when none was pending;
\* runs: times the wrapped function ran
NoBurst == [ typed |-> 0, pending |-> 0, last |-> << >>, idle |-> 0, started |-> 0,
             runs |-> 0 ]

-----------------------------------------------------------------------------
(* Strings                                                                 *)

LowerLetters == << "a", "b", "c", "d", "e", "f", "g", "h", "i", "j", "k", "l", "m",
                   "n", "o", "p", "q", "r", "s", "t", "u", "v", "w", "x", "y", "z" >>
UpperLetters == << "A", "B", "C", "D", "E", "F", "G", "H", "I", "J", "K", "L", "M",
                   "N", "O", "P", "Q", "R", "S", "T", "U", "V", "W", "X", "Y", "Z" >>
Digits == << "0", "1", "2", "3", "4", "5", "6", "7", "8", "9" >>
Marks == << " ", ":", "\"", "|" >>
\* two characters outside ASCII, by name: U+00E9 (e with acute, one code unit)
\* and U+0301 (combining acute accent); U+00E9 is canonically equivalent to
\* "e" followed by U+0301
EAcute == "e_acute"
CombiningAcute == "acute"

Range(s) == { s[i] : i \in 1..Len(s) }
BaseChars == Range(LowerLetters) \cup Range(UpperLetters) \cup Range(Digits) \cup Range(Marks)
Chars == BaseChars \cup { EAcute, CombiningAcute }

IndexIn(s, c) == CHOOSE i \in 1..Len(s) : s[i] = c

\* String.prototype.toLowerCase, one character
LowerOf == [ c \in Chars |->
               IF c \in Range(UpperLetters) THEN LowerLetters[IndexIn(UpperLetters, c)] ELSE c ]

\* String.prototype.toLowerCase
toLowerCase(s) == [ i \in 1..Len(s) |-> LowerOf[s[i]] ]

\* String.prototype.includes: q occurs in s as a contiguous substring
includes(s, q) ==
    \E i \in 1..(Len(s) - Len(q) + 1) : \A j \in 1..Len(q) : s[i + j - 1] = q[j]

\* Collation of String.prototype.localeCompare (root/en rules on this alphabet):
\* the strings are compared in canonically decomposed form, so that canonically
\* equivalent strings compare equal (the result is then 0).  Primary order is
\* white space < punctuation < symbols < digits < letters, letters compared
\* without case and combining accents not counted; strings equal at the primary
\* level are ordered by their accents, and then by case, lower case first.
PrimaryOrder == Marks \o Digits \o LowerLetters
PrimaryWeight == [ c \in BaseChars |-> IndexIn(PrimaryOrder, LowerOf[c]) ]
AccentWeight == [ c \in Chars |-> IF c = CombiningAcute THEN 1 ELSE 0 ]
CaseWeight == [ c \in Chars |-> IF c \in Range(UpperLetters) THEN 1 ELSE 0 ]

\* canonical decomposition (NFD)
Decompose(s) ==
    LET IsPrecomposed(i) == s[i] = EAcute
        at == SelectSeq([ i \in 1..Len(s) |-> i ], IsPrecomposed)
        \* the position in s of the k-th character of the decomposed string
        Before(i) == Cardinality({ j \in Range(at) : j < i })
    IN  IF at = << >> THEN s
        ELSE [ k \in 1..(Len(s) + Len(at)) |->
                 LET i == CHOOSE i \in 1..Len(s) :
                              i + Before(i) <= k /\ k <= i + Before(i + 1)
                 IN  IF s[i] # EAcute THEN s[i]
                     ELSE IF k = i + Before(i) THEN "e" ELSE CombiningAcute ]

IsBaseChar(c) == c # CombiningAcute

\* lexicographic comparison of two sequences of numbers: -1, 0 or 1
RECURSIVE LexCompare(_, _)
LexCompare(a, b) ==
    IF a = << >> THEN (IF b = << >> THEN 0 ELSE -1)
    ELSE IF b = << >> THEN 1
    ELSE IF Head(a) < Head(b) THEN -1
    ELSE IF Head(a) > Head(b) THEN 1
    ELSE LexCompare(Tail(a), Tail(b))

localeCompare(a, b) ==
    LET da == Decompose(a)
        db == Decompose(b)
        ba == SelectSeq(da, IsBaseChar)
        bb == SelectSeq(db, IsBaseChar)
        p == LexCompare([ i \in 1..Len(ba) |-> PrimaryWeight[ba[i]] ],
                        [ i \in 1..Len(bb) |-> PrimaryWeight[bb[i]] ])
        s == LexCompare([ i \in 1..Len(da) |-> AccentWeight[da[i]] ],
                        [ i \in 1..Len(db) |-> AccentWeight[db[i]] ])
    IN  IF p # 0 THEN p
        ELSE IF s # 0 THEN s
        ELSE LexCompare([ i \in 1..Len(da) |-> CaseWeight[da[i]] ],
                        [ i \in 1..Len(db) |-> CaseWeight[db[i]] ])

UnknownVendor == << "U", "n", "k", "n", "o", "w", "n", " ", "V", "e", "n", "d", "o", "r" >>
UnknownAgency == << "U", "n", "k", "n", "o", "w", "n", " ", "A", "g", "e", "n", "c", "y" >>
KeySeparator == << "|", "|", "|" >>

-----------------------------------------------------------------------------
(* Arrays and Maps                                                         *)

\* a JavaScript Map as the sequence of its entries [k, v] in insertion order
MapHas(m, k) == \E i \in 1..Len(m) : m[i].k = k
MapGet(m, k) == m[CHOOSE i \in 1..Len(m) : m[i].k = k].v
\* a set that adds an entry even where the key is present
MapSetAddingEntry(m, k, v) == Append(m, [k |-> k, v |-> v])
MapSet(m, k, v) ==
    IF MapHas(m, k)
    THEN [ i \in 1..Len(m) |-> IF m[i].k = k THEN [k |-> k, v |-> v] ELSE m[i] ]
    ELSE Append(m, [k |-> k, v |-> v])
\* map.get(k) || 0
MapGetOr0(m, k) == IF MapHas(m, k) THEN MapGet(m, k) ELSE 0
MapKeys(m) == [ i \in 1..Len(m) |-> m[i].k ]
MapValues(m) == [ i \in 1..Len(m) |-> m[i].v ]

\* Array.prototype.slice(0, n)
Slice0(s, n) == SubSeq(s, 1, IF Len(s) < n THEN Len(s) ELSE n)

\* the positions of s, in increasing order, whose element satisfies Test
Positions(s, Test(_)) ==
    LET Hit(i) == Test(s[i])
    IN  SelectSeq([ i \in 1..Len(s) |-> i ], Hit)

\* Array.prototype.indexOf, 0-based (-1 when absent)
IndexOf0(s, x) ==
    LET Is(y) == y = x
        at == Positions(s, Is)
    IN  IF at = << >> THEN -1 ELSE Head(at) - 1

\* array.forEach / array.reduce: Op applied to s[lo], ..., s[hi] in this order,
\* starting from acc.  The range is halved so that the evaluation stays shallow;
\* the test on left makes the left half be evaluated before the right half.
RECURSIVE ForEach(_, _, _, _, _)
ForEach(Op(_, _), acc, s, lo, hi) ==
    IF lo > hi THEN acc
    ELSE IF lo = hi THEN Op(acc, s[lo])
    ELSE LET mid == (lo + hi) \div 2
             left == ForEach(Op, acc, s, lo, mid)
         IN  IF left = left THEN ForEach(Op, left, s, mid + 1, hi) ELSE acc

Plus(sum, x) == sum + x
SumSeq(s) == ForEach(Plus, 0, s, 1, Len(s))

InsertAt(s, p, e) == SubSeq(s, 1, p - 1) \o << e >> \o SubSeq(s, p, Len(s))
\* e goes before the first of the positions `greater` (those of the elements
\* that compare greater than e, in increasing order), at the end when there is none
InsertBefore(sorted, greater, e) ==
    InsertAt(sorted, IF greater = << >> THEN Len(sorted) + 1 ELSE Head(greater), e)

\* Array.prototype.sort is stable: an element is placed before the first element
\* that compares greater, after every element that compares equal.
\* entries [k, v] ordered by  multiplier * (a[1] - b[1])
InsertByValue(sorted, e, multiplier) ==
    LET Greater(x) == multiplier * (x.v - e.v) > 0
    IN  InsertBefore(sorted, Positions(sorted, Greater), e)

SortByValue(entries, multiplier) ==
    LET Ins(sorted, e) == InsertByValue(sorted, e, multiplier)
    IN  ForEach(Ins, << >>, entries, 1, Len(entries))

\* names ordered by  multiplier * a.localeCompare(b)
InsertByName(sorted, n, multiplier) ==
    LET Greater(x) == multiplier * localeCompare(x, n) > 0
    IN  InsertBefore(sorted, Positions(sorted, Greater), n)

\* the names left in the order of the Map
NamesInMapOrder(names, multiplier) == names

SortByName(names, multiplier) ==
    LET Ins(sorted, n) == InsertByName(sorted, n, multiplier)
    IN  ForEach(Ins, << >>, names, 1, Len(names))

-----------------------------------------------------------------------------
(* API.aggregateForSankey and API.aggregateForMatrix (js/api.js)           *)

\* the vendor name read without a default
VendorNameAsIs(record) == record.vendor_name

\* record.vendor_name || 'Unknown Vendor'
VendorOf(record) ==
    IF record.vendor_name # << >> THEN record.vendor_name ELSE UnknownVendor
\* record.agency_name || 'Unknown Agency'
AgencyOf(record) ==
    IF record.agency_name # << >> THEN record.agency_name ELSE UnknownAgency
\* record.contract_amount || 0 (a record may lack the field)
AmountOf(record) ==
    IF "contract_amount" \in DOMAIN record THEN record.contract_amount ELSE 0
\* `${vendor}|||${agency}`
PairKey(vendor, agency) == vendor \o KeySeparator \o agency

SortSpecs == { "amount-desc", "amount-asc", "count-desc", "count-asc",
               "name-desc", "name-asc" }
\* const [field, direction] = sortBy.split('-')
FieldOf(sortSpec) ==
    CASE sortSpec \in { "amount-desc", "amount-asc" } -> "amount"
      [] sortSpec \in { "count-desc", "count-asc" } -> "count"
      [] OTHER -> "name"
DirectionOf(sortSpec) ==
    IF sortSpec \in { "amount-desc", "count-desc", "name-desc" } THEN "desc" ELSE "asc"
\* direction === 'desc' ? -1 : 1
MultiplierOf(sortSpec) == IF DirectionOf(sortSpec) = "desc" THEN -1 ELSE 1

\* body of the data.forEach of aggregateForSankey
SankeyAccumulate(acc, record) ==
    LET vendor == VendorOf(record)
        agency == AgencyOf(record)
        amount == AmountOf(record)
        key == PairKey(vendor, agency)
        link == IF MapHas(acc.linkMap, key) THEN MapGet(acc.linkMap, key)
                ELSE [ vendor |-> vendor, agency |-> agency, amount |-> 0,
                       count |-> 0, contracts |-> << >> ]
    IN  [ vendorTotals |-> MapSet(acc.vendorTotals, vendor,
                                  MapGetOr0(acc.vendorTotals, vendor) + amount),
          agencyTotals |-> MapSet(acc.agencyTotals, agency,
                                  MapGetOr0(acc.agencyTotals, agency) + amount),
          linkMap |-> MapSet(acc.linkMap, key,
                             [ link EXCEPT !.amount = @ + amount,
                                           !.count = @ + 1,
                                           !.contracts = Append(@, record) ]) ]

\* Maps that stay from one call to the next: a call of aggregateForSankey that
\* follows another one goes on with the Maps the earlier call filled
SankeyMapsKept ==
    IF "linkMap" \in DOMAIN frame.maps THEN frame.maps
    ELSE [ vendorTotals |-> << >>, agencyTotals |-> << >>, linkMap |-> << >> ]

\* const linkMap = new Map(), vendorTotals = new Map(), agencyTotals = new Map()
NewSankeyMaps == [ vendorTotals |-> << >>, agencyTotals |-> << >>, linkMap |-> << >> ]

SankeyGroup(data) == ForEach(SankeyAccumulate, NewSankeyMaps, data, 1, Len(data))

\* the second data.forEach of aggregateForSankey (field === 'count')
SankeyCountAccumulate(acc, r) ==
    LET v == VendorOf(r)
        a == AgencyOf(r)
    IN  [ vendorCounts |-> MapSet(acc.vendorCounts, v, MapGetOr0(acc.vendorCounts, v) + 1),
          agencyCounts |-> MapSet(acc.agencyCounts, a, MapGetOr0(acc.agencyCounts, a) + 1) ]

SankeyCounts(data) ==
    ForEach(SankeyCountAccumulate, [ vendorCounts |-> << >>, agencyCounts |-> << >> ],
            data, 1, Len(data))

\* the three branches that order the names of one axis
OrderNames(field, multiplier, totals, counts) ==
    IF field = "amount" THEN MapKeys(SortByValue(totals, multiplier))
    ELSE IF field = "count" THEN MapKeys(SortByValue(counts, multiplier))
    ELSE SortByName(MapKeys(totals), multiplier)

\* a vendor order that takes the amounts where the counts are asked for
VendorOrderByTotalsOnly(g, data, sortSpec) ==
    OrderNames(FieldOf(sortSpec), MultiplierOf(sortSpec), g.vendorTotals, g.vendorTotals)

SankeyVendorOrder(g, data, sortSpec) ==
    OrderNames(FieldOf(sortSpec), MultiplierOf(sortSpec), g.vendorTotals,
               SankeyCounts(data).vendorCounts)
SankeyAgencyOrder(g, data, sortSpec) ==
    OrderNames(FieldOf(sortSpec), MultiplierOf(sortSpec), g.agencyTotals,
               SankeyCounts(data).agencyCounts)

\* nodes: vendors first, then agencies
SankeyNodes(g, sortedVendors, sortedAgencies) ==
    [ i \in 1..Len(sortedVendors) |->
        [ name |-> sortedVendors[i], type |-> "vendor",
          total |-> MapGet(g.vendorTotals, sortedVendors[i]) ] ]
    \o
    [ i \in 1..Len(sortedAgencies) |->
        [ name |-> sortedAgencies[i], type |-> "agency",
          total |-> MapGet(g.agencyTotals, sortedAgencies[i]) ] ]

\* nodeIndex.get(`vendor:${name}`) and nodeIndex.get(`agency:${name}`), 0-based
NodeIndexVendor(sortedVendors, name) == IndexOf0(sortedVendors, name)
\* an agency index counted among the agencies only
AgencyIndexAmongAgencies(sortedVendors, sortedAgencies, name) ==
    IndexOf0(sortedAgencies, name)
NodeIndexAgency(sortedVendors, sortedAgencies, name) ==
    Len(sortedVendors) + IndexOf0(sortedAgencies, name)

SankeyLinks(g, sortedVendors, sortedAgencies) ==
    LET ls == MapValues(g.linkMap)
    IN  [ i \in 1..Len(ls) |->
            [ source |-> NodeIndexVendor(sortedVendors, ls[i].vendor),
              target |-> NodeIndexAgency(sortedVendors, sortedAgencies, ls[i].agency),
              value |-> ls[i].amount,
              count |-> ls[i].count,
              vendor |-> ls[i].vendor,
              agency |-> ls[i].agency,
              contracts |-> ls[i].contracts ] ]

\* what aggregateForSankey does after its first data.forEach, the Maps being g
SankeyResult(g, data, sortSpec) ==
    LET sortedVendors == SankeyVendorOrder(g, data, sortSpec)
        sortedAgencies == SankeyAgencyOrder(g, data, sortSpec)
    IN  [ nodes |-> SankeyNodes(g, sortedVendors, sortedAgencies),
          links |-> SankeyLinks(g, sortedVendors, sortedAgencies) ]

aggregateForSankey(data, sortSpec) == SankeyResult(SankeyGroup(data), data, sortSpec)

\* body of the data.forEach of aggregateForMatrix
MatrixAccumulate(acc, record) ==
    LET vendor == VendorOf(record)
        agency == AgencyOf(record)
        amount == AmountOf(record)
        key == PairKey(vendor, agency)
        cell == IF MapHas(acc.matrixMap, key) THEN MapGet(acc.matrixMap, key)
                ELSE [ amount |-> 0, count |-> 0 ]
    IN  [ vendorTotalsMap |-> MapSet(acc.vendorTotalsMap, vendor,
                                     MapGetOr0(acc.vendorTotalsMap, vendor) + amount),
          agencyTotalsMap |-> MapSet(acc.agencyTotalsMap, agency,
                                     MapGetOr0(acc.agencyTotalsMap, agency) + amount),
          vendorCountsMap |-> MapSet(acc.vendorCountsMap, vendor,
                                     MapGetOr0(acc.vendorCountsMap, vendor) + 1),
          agencyCountsMap |-> MapSet(acc.agencyCountsMap, agency,
                                     MapGetOr0(acc.agencyCountsMap, agency) + 1),
          matrixMap |-> MapSet(acc.matrixMap, key,
                               [ amount |-> cell.amount + amount,
                                 count |-> cell.count + 1 ]) ]

\* the five new Map() of aggregateForMatrix
NewMatrixMaps ==
    [ vendorTotalsMap |-> << >>, agencyTotalsMap |-> << >>,
      vendorCountsMap |-> << >>, agencyCountsMap |-> << >>, matrixMap |-> << >> ]

MatrixGroup(data) == ForEach(MatrixAccumulate, NewMatrixMaps, data, 1, Len(data))

MatrixVendorOrder(g, sortSpec) ==
    OrderNames(FieldOf(sortSpec), MultiplierOf(sortSpec), g.vendorTotalsMap,
               g.vendorCountsMap)
MatrixAgencyOrder(g, sortSpec) ==
    OrderNames(FieldOf(sortSpec), MultiplierOf(sortSpec), g.agencyTotalsMap,
               g.agencyCountsMap)

\* matrixMap.get(key), or { amount: 0, count: 0 }
MatrixCell(g, vendor, agency) ==
    IF MapHas(g.matrixMap, PairKey(vendor, agency))
    THEN MapGet(g.matrixMap, PairKey(vendor, agency))
    ELSE [ amount |-> 0, count |-> 0 ]

\* what aggregateForMatrix does after its data.forEach, the Maps being g
MatrixResult(g, sortSpec) ==
    LET vendors == MatrixVendorOrder(g, sortSpec)
        agencies == MatrixAgencyOrder(g, sortSpec)
    IN  [ vendors |-> vendors,
          agencies |-> agencies,
          matrix |-> [ i \in 1..Len(vendors) |->
                         [ j \in 1..Len(agencies) |->
                             MatrixCell(g, vendors[i], agencies[j]) ] ],
          vendorTotals |-> [ i \in 1..Len(vendors) |-> MapGet(g.vendorTotalsMap, vendors[i]) ],
          agencyTotals |-> [ j \in 1..Len(agencies) |-> MapGet(g.agencyTotalsMap, agencies[j]) ] ]

aggregateForMatrix(data, sortSpec) == MatrixResult(MatrixGroup(data), sortSpec)

-----------------------------------------------------------------------------
(* Filters.applyFilters and Filters.sortData (js/filters.js)               *)

\* Array.prototype.includes on a list of names
ListIncludes(list, x) == \E i \in 1..Len(list) : list[i] = x

\* a field test that does not fold the case of the field
FieldMatchesExactCase(field, query) == field # << >> /\ includes(field, query)

\* searchFields.some(field => field && field.toLowerCase().includes(query))
FieldMatches(field, query) == field # << >> /\ includes(toLowerCase(field), query)
SearchFields(record) ==
    << record.vendor_name, record.agency_name, record.short_title, record.additional_info >>
MatchesSearch(record, query) ==
    \E i \in 1..4 : FieldMatches(SearchFields(record)[i], query)

\* if (this.state.searchQuery) filtered = filtered.filter(...)
SearchFilter(data, q) ==
    LET Keep(r) == MatchesSearch(r, toLowerCase(q))
    IN  IF q # << >> THEN SelectSeq(data, Keep) ELSE data
\* a vendor filter that keeps the records that have no vendor name
VendorFilterOrUnnamed(data, sv) ==
    LET Keep(r) == r.vendor_name = << >> \/ ListIncludes(sv, r.vendor_name)
    IN  IF Len(sv) > 0 THEN SelectSeq(data, Keep) ELSE data

\* if (this.state.selectedVendors.length > 0) filtered = filtered.filter(...)
VendorFilter(data, sv) ==
    LET Keep(r) == ListIncludes(sv, r.vendor_name)
    IN  IF Len(sv) > 0 THEN SelectSeq(data, Keep) ELSE data
\* if (this.state.selectedAgencies.length > 0) filtered = filtered.filter(...)
AgencyFilter(data, sa) ==
    LET Keep(r) == ListIncludes(sa, r.agency_name)
    IN  IF Len(sa) > 0 THEN SelectSeq(data, Keep) ELSE data

\* a comparator that leaves the records as they are under the count sorts
RecordCompareCountAsIs(a, b, sortSpec) ==
    CASE FieldOf(sortSpec) = "amount" ->
           MultiplierOf(sortSpec) * (AmountOf(a) - AmountOf(b))
      [] FieldOf(sortSpec) = "count" -> 0
      [] OTHER ->
           MultiplierOf(sortSpec) * localeCompare(toLowerCase(a.vendor_name),
                                                  toLowerCase(b.vendor_name))

\* the comparator of sortData
RecordCompare(a, b, sortSpec) ==
    CASE FieldOf(sortSpec) = "amount" ->
           MultiplierOf(sortSpec) * (AmountOf(a) - AmountOf(b))
      [] FieldOf(sortSpec) = "count" ->
           MultiplierOf(sortSpec) * (AmountOf(a) - AmountOf(b))
      [] OTHER ->
           MultiplierOf(sortSpec) * localeCompare(toLowerCase(a.vendor_name),
                                                  toLowerCase(b.vendor_name))

\* an insertion that puts the record before the records it ties with
InsertRecordBeforeTies(sorted, r, sortSpec) ==
    LET NotLess(x) == RecordCompare(x, r, sortSpec) >= 0
    IN  InsertBefore(sorted, Positions(sorted, NotLess), r)

InsertRecord(sorted, r, sortSpec) ==
    LET Greater(x) == RecordCompare(x, r, sortSpec) > 0
    IN  InsertBefore(sorted, Positions(sorted, Greater), r)

\* [...data].sort(comparator)
sortData(data, sortSpec) ==
    LET Ins(sorted, r) == InsertRecord(sorted, r, sortSpec)
    IN  ForEach(Ins, << >>, data, 1, Len(data))

applyFilters(data, q, sv, sa, sortSpec) ==
    sortData(AgencyFilter(VendorFilter(SearchFilter(data, q), sv), sa), sortSpec)

-----------------------------------------------------------------------------
(* Record sets the model draws                                             *)

Rec(v, a, amount, title, info) ==
    [ vendor_name |-> v, agency_name |-> a, contract_amount |-> amount,
      short_title |-> title, additional_info |-> info ]

\* longest record list drawn from SampleRecords
MaxLen == 3

\* Two vendors that tie on amount and differ on count, names that differ in
\* case, a record without names, an amount of 0, and two pairs whose names
\* contain the key separator.
SampleRecords ==
    { Rec(<< "A", "b" >>, << "X" >>, 2, << "B", "u", "s" >>, << >>),
      Rec(<< "A", "b" >>, << "Y" >>, 1, << >>, << "a", "b", " ", "|", " ", "x" >>),
      Rec(<< "b" >>, << "X" >>, 0, << >>, << >>),
      Rec(<< >>, << >>, 1, << "a", "B" >>, << >>),
      Rec(<< "A", "|", "|", "|", "B" >>, << "C" >>, 1, << >>, << >>),
      Rec(<< "A" >>, << "B", "|", "|", "|", "C" >>, 2, << >>, << >>) }

SeqsUpTo(S, n) == UNION { [ 1..k -> S ] : k \in 0..n }
SampleData == SeqsUpTo(SampleRecords, MaxLen)

\* records whose vendor names are canonically equivalent, or differ by an accent
AccentedRecords ==
    { Rec(<< EAcute >>, << "X" >>, 1, << >>, << >>),
      Rec(<< "e", CombiningAcute >>, << "X" >>, 2, << >>, << >>),
      Rec(<< "e" >>, << "Y" >>, 1, << >>, << >>) }
AccentedData == SeqsUpTo(AccentedRecords, MaxLen)

\* records that lack a name or the amount
BareRecords ==
    { [ vendor_name |-> << >>, agency_name |-> << "X" >>, short_title |-> << >>,
        additional_info |-> << >> ],
      Rec(<< "b" >>, << >>, 2, << >>, << >>),
      Rec(<< >>, << "X" >>, 1, << >>, << >>) }
BareData == SeqsUpTo(BareRecords, MaxLen)

NoSankey == [ called |-> FALSE, nodes |-> << >>, links |-> << >> ]
NoMatrix == [ called |-> FALSE, vendors |-> << >>, agencies |-> << >>, matrix |-> << >>,
              vendorTotals |-> << >>, agencyTotals |-> << >> ]
NoStats == [ contracts |-> 0, totalAmount |-> 0 ]
\* the sort keys given to the aggregations that are called again and again
RepeatSorts == { "amount-desc", "count-asc" }
\* no aggregation is running and none has returned. fn: the aggregation that is
\* running; sortBy: its second argument; i: the records its data.forEach has
\* visited; maps: the Maps of the latest call; log: the calls that returned, in
\* order; sankey, matrix: the value each aggregation returned last for a sort key
NoFrame == [ fn |-> "none", sortBy |-> "amount-desc", i |-> 0, maps |-> << >>,
             log |-> << >>,
             sankey |-> [ s \in RepeatSorts |-> NoSankey ],
             matrix |-> [ s \in RepeatSorts |-> NoMatrix ] ]
\* margin.left, margin.right of SankeyChart
marginLeft == 200
marginRight == 200
\* the change of width above which SankeyChart.render calls init() again
widthChange == 50
\* the widths the container #sankey-chart takes
ContainerWidths == { 1000, 1040, 1200 }

\* before SankeyChart.init() has run: svg is null, lastData is not set, no resize
\* listener is registered; listeners counts the listeners registered, resize
\* those whose debounced callback is still to run
NoSankeyChart == [ state |-> "blank", nodes |-> << >>, links |-> << >>,
                   rect |-> 1000, svg |-> "null", width |-> 0, lastData |-> << >>,
                   listeners |-> 0, resize |-> 0 ]
NoMatrixChart == [ state |-> "blank", vendorOrder |-> << >>, agencyOrder |-> << >>,
                   cells |-> << >>, grandTotal |-> 0 ]

WithCalled(r) == [ x \in { "called" } \cup DOMAIN r |-> IF x = "called" THEN TRUE ELSE r[x] ]

-----------------------------------------------------------------------------
(* SpecAgg: the two aggregations applied to a filtered record set          *)

InitAgg ==
    /\ filteredData \in SampleData \cup AccentedData \cup BareData
    /\ rawData = filteredData
    /\ sortBy \in SortSpecs
    /\ activeTab = "sankey"
    /\ searchQuery = << >>
    /\ selectedVendors = << >>
    /\ selectedAgencies = << >>
    /\ stats = NoStats
    /\ sankeyData = NoSankey
    /\ matrixData = NoMatrix
    /\ sankeyChart = NoSankeyChart
    /\ matrixChart = NoMatrixChart
    /\ loading = FALSE
    /\ calls = << >>
    /\ timers = NoTimers
    /\ timeout = NoTimeout
    /\ burst = NoBurst
    /\ frame = NoFrame

\* API.aggregateForSankey(data, sortBy) is called
AggregateForSankey ==
    /\ sankeyData' = WithCalled(aggregateForSankey(filteredData, sortBy))
    /\ UNCHANGED << rawData, filteredData, activeTab, searchQuery, selectedVendors,
                    selectedAgencies, sortBy, stats, matrixData, sankeyChart,
                    matrixChart, loading, calls >>
    /\ UNCHANGED << timers, timeout, burst, frame >>

\* API.aggregateForMatrix(data, sortBy) is called
AggregateForMatrix ==
    /\ matrixData' = WithCalled(aggregateForMatrix(filteredData, sortBy))
    /\ UNCHANGED << rawData, filteredData, activeTab, searchQuery, selectedVendors,
                    selectedAgencies, sortBy, stats, sankeyData, sankeyChart,
                    matrixChart, loading, calls >>
    /\ UNCHANGED << timers, timeout, burst, frame >>

NextAgg == AggregateForSankey \/ AggregateForMatrix

SpecAgg == InitAgg /\ [][NextAgg]_vars

IsVendorNode(n) == n.type = "vendor"
IsAgencyNode(n) == n.type = "agency"
VendorNodes(nodes) == SelectSeq(nodes, IsVendorNode)
AgencyNodes(nodes) == SelectSeq(nodes, IsAgencyNode)
NamesOf(nodes) == [ i \in 1..Len(nodes) |-> nodes[i].name ]
TotalsOf(nodes) == [ i \in 1..Len(nodes) |-> nodes[i].total ]
LinkValues(links) == [ i \in 1..Len(links) |-> links[i].value ]
AmountsOf(data) == [ i \in 1..Len(data) |-> AmountOf(data[i]) ]
RowAmounts(row) == [ j \in 1..Len(row) |-> row[j].amount ]
CellSum(matrix) == SumSeq([ i \in 1..Len(matrix) |-> SumSeq(RowAmounts(matrix[i])) ])
BothCalled == sankeyData.called /\ matrixData.called

\* C1: aggregateForSankey and aggregateForMatrix agree on the same records and
\* sort specification: the order of the vendor nodes is matrix.vendors, the order
\* of the agency nodes is matrix.agencies, every node total is the matching
\* vendorTotals / agencyTotals entry, and every link's value and count are those
\* of the matrix cell of the link's (vendor, agency) pair.
C1_ViewsAgree ==
    BothCalled =>
        /\ NamesOf(VendorNodes(sankeyData.nodes)) = matrixData.vendors
        /\ NamesOf(AgencyNodes(sankeyData.nodes)) = matrixData.agencies
        /\ TotalsOf(VendorNodes(sankeyData.nodes)) = matrixData.vendorTotals
        /\ TotalsOf(AgencyNodes(sankeyData.nodes)) = matrixData.agencyTotals
        /\ \A k \in 1..Len(sankeyData.links) :
             LET l == sankeyData.links[k]
                 cell == matrixData.matrix[IndexOf0(matrixData.vendors, l.vendor) + 1]
                                          [IndexOf0(matrixData.agencies, l.agency) + 1]
             IN  cell.amount = l.value /\ cell.count = l.count

\* both aggregations were applied, under a count sort, to records in which the
\* amount order and the count order of the vendors differ
C1_Witness ==
    /\ BothCalled
    /\ FieldOf(sortBy) = "count"
    /\ Len(matrixData.vendors) >= 2
    /\ Len(sankeyData.links) >= 2
    /\ matrixData.vendors # aggregateForMatrix(filteredData, "amount-desc").vendors
    /\ matrixData.vendors # aggregateForMatrix(filteredData, "amount-asc").vendors

\* C2 (as claimed): the sum of the link values, the sum of contract_amount over
\* the input records and the sum of the amounts of all matrix cells are equal.
C2_SumsAgree ==
    BothCalled =>
        /\ SumSeq(LinkValues(sankeyData.links)) = SumSeq(AmountsOf(filteredData))
        /\ CellSum(matrixData.matrix) = SumSeq(AmountsOf(filteredData))

-----------------------------------------------------------------------------
(* SankeyChart.render (js/sankey.js), MatrixChart.render (js/matrix.js),   *)
(* App.applyClientFilters and App.renderActiveView (js/app.js)             *)

maxLinks == 100
maxVendors == 50
maxAgencies == 30

\* sankeyData.links.sort((a, b) => b.value - a.value)
InsertLink(sorted, l) ==
    LET Greater(x) == l.value - x.value > 0
    IN  InsertBefore(sorted, Positions(sorted, Greater), l)

SortLinksByValue(links) == ForEach(InsertLink, << >>, links, 1, Len(links))

\* the sorted links, not cut
AllLinksSorted(links) == SortLinksByValue(links)
\* the first maxLinks links in the order of the aggregation
FirstLinks(links) == Slice0(links, maxLinks)

\* topLinks: the sorted links cut to maxLinks
TopLinks(links) == Slice0(SortLinksByValue(links), maxLinks)

UsedNodeIndices(topLinks) ==
    { topLinks[i].source : i \in 1..Len(topLinks) } \cup
    { topLinks[i].target : i \in 1..Len(topLinks) }

\* the old (0-based) indices of the nodes kept, in node order
KeptIndices(n, used) ==
    LET IsUsed(oldIndex) == oldIndex \in used
    IN  SelectSeq([ i \in 1..n |-> i - 1 ], IsUsed)

\* filteredNodes, filteredLinks of SankeyChart.render
SankeyWindow(sd) ==
    LET topLinks == TopLinks(sd.links)
        kept == KeptIndices(Len(sd.nodes), UsedNodeIndices(topLinks))
        nodeMap == [ old \in Range(kept) |-> IndexOf0(kept, old) ]
    IN  [ nodes |-> [ i \in 1..Len(kept) |->
                        [ name |-> sd.nodes[kept[i] + 1].name,
                          type |-> sd.nodes[kept[i] + 1].type,
                          total |-> sd.nodes[kept[i] + 1].total,
                          index |-> i - 1 ] ],
          links |-> [ i \in 1..Len(topLinks) |->
                        [ topLinks[i] EXCEPT !.source = nodeMap[topLinks[i].source],
                                             !.target = nodeMap[topLinks[i].target] ] ] ]

\* SankeyChart.init(): the container is emptied, an <svg> with the group this.svg
\* is appended to it, this.width is taken from the container and one more resize
\* listener is registered
SankeyInit(pane) ==
    [ pane EXCEPT !.state = "blank", !.nodes = << >>, !.links = << >>,
                  !.svg = "attached",
                  !.width = pane.rect - marginLeft - marginRight,
                  !.listeners = pane.listeners + 1 ]

\* the pane when the first response is about to be rendered: App.init and
\* App.fetchAndRender have each called SankeyChart.init()
FirstPane == SankeyInit(SankeyInit(NoSankeyChart))

\* the content of the container is replaced by a block with an <svg> icon: the
\* group this.svg, if there is one, is no longer in the page
Replaced(pane, by) ==
    [ pane EXCEPT !.state = by, !.nodes = << >>, !.links = << >>,
                  !.svg = IF pane.svg = "null" THEN "null" ELSE "detached" ]

\* SankeyChart.showEmpty()
SankeyShowEmpty(pane) == Replaced(pane, "empty")

Abs(x) == IF x < 0 THEN 0 - x ELSE x

\* the test of SankeyChart.render for calling init() again: this.svg is null or
\* the width changed (container.querySelector('svg') finds the <svg> of init(),
\* or the icon of the empty state or of the error)
NeedsInit(pane) ==
    \/ pane.svg = "null"
    \/ Abs((pane.rect - marginLeft - marginRight) - pane.width) > widthChange

\* SankeyChart.render(data) on the pane as it is, sd being the value of
\* API.aggregateForSankey(data, sortBy): the empty state, or what is handed to the
\* layout and drawn in this.svg; a group that is not in the page leaves the
\* content of the container as it was
SankeyRender(data, sd, pane) ==
    IF Len(data) = 0 THEN SankeyShowEmpty(pane)
    ELSE LET kept == [ pane EXCEPT !.lastData = data ]
             ready == IF NeedsInit(kept) THEN SankeyInit(kept) ELSE kept
             w == SankeyWindow(sd)
         IN  IF Len(sd.nodes) = 0 \/ Len(sd.links) = 0 \/ Len(w.nodes) = 0 \/ Len(w.links) = 0
             THEN SankeyShowEmpty(ready)
             ELSE IF ready.svg = "attached"
                  THEN [ ready EXCEPT !.state = "drawn", !.nodes = w.nodes, !.links = w.links ]
                  ELSE ready

\* vendorOrder / agencyOrder: names.slice(0, max).map((v, i) => ({name, total, index}))
EntityOrder(names, totals, max) ==
    LET cut == Slice0(names, max)
    IN  [ i \in 1..Len(cut) |-> [ name |-> cut[i], total |-> totals[i], index |-> i - 1 ] ]

\* const grandTotal = vendorOrder.reduce((sum, v) => sum + v.total, 0)
GrandTotal(vendorOrder) == SumSeq(TotalsOf(vendorOrder))

\* MatrixChart.render(data), md being the value of API.aggregateForMatrix(data,
\* sortBy): the table written, or the empty state
MatrixRender(data, md) ==
    LET blank == [ state |-> "empty", vendorOrder |-> << >>, agencyOrder |-> << >>,
                   cells |-> << >>, grandTotal |-> 0 ]
    IN  IF Len(data) = 0 THEN blank
        ELSE LET vendorOrder == EntityOrder(md.vendors, md.vendorTotals, maxVendors)
                 agencyOrder == EntityOrder(md.agencies, md.agencyTotals, maxAgencies)
             IN  IF Len(md.vendors) = 0 \/ Len(md.agencies) = 0 THEN blank
                 ELSE [ state |-> "drawn",
                        vendorOrder |-> vendorOrder,
                        agencyOrder |-> agencyOrder,
                        cells |-> [ i \in 1..Len(vendorOrder) |->
                                      [ j \in 1..Len(agencyOrder) |->
                                          md.matrix[vendorOrder[i].index + 1]
                                                   [agencyOrder[j].index + 1] ] ],
                        grandTotal |-> GrandTotal(vendorOrder) ]

\* Utils.updateStats(filteredData.length, totalAmount)
StatsOf(data) == [ contracts |-> Len(data), totalAmount |-> SumSeq(AmountsOf(data)) ]

\* App.renderActiveView, on the values the caller has just set; sankeyPane is the
\* content of #sankey-chart as the caller left it
RenderActiveView(data, tab, sortSpec, sankeyPane) ==
    IF tab = "sankey"
    THEN /\ sankeyData' = IF Len(data) = 0 THEN sankeyData
                          ELSE WithCalled(aggregateForSankey(data, sortSpec))
         /\ sankeyChart' = SankeyRender(data, sankeyData', sankeyPane)
         /\ UNCHANGED << matrixChart, matrixData >>
    ELSE /\ matrixData' = IF Len(data) = 0 THEN matrixData
                          ELSE WithCalled(aggregateForMatrix(data, sortSpec))
         /\ matrixChart' = MatrixRender(data, matrixData')
         /\ sankeyChart' = sankeyPane
         /\ UNCHANGED sankeyData

\* App.applyClientFilters, on the raw data and filter state the caller has set
ApplyClientFilters(raw, q, sv, sa, sortSpec, tab, sankeyPane) ==
    /\ filteredData' = applyFilters(raw, q, sv, sa, sortSpec)
    /\ stats' = StatsOf(filteredData')
    /\ RenderActiveView(filteredData', tab, sortSpec, sankeyPane)

\* the change handler of the sort-by select (Filters.bindSortBy)
SortChange(s) ==
    /\ sortBy' = s
    /\ ApplyClientFilters(rawData, searchQuery, selectedVendors, selectedAgencies, s,
                          activeTab, sankeyChart)
    /\ UNCHANGED << rawData, activeTab, searchQuery, selectedVendors, selectedAgencies,
                    loading, calls >>
    /\ UNCHANGED << timers, timeout, burst, frame >>

\* App.switchTab(tabName)
SwitchTab(t) ==
    /\ activeTab' = t
    /\ RenderActiveView(filteredData, t, sortBy, sankeyChart)
    /\ UNCHANGED << rawData, filteredData, searchQuery, selectedVendors, selectedAgencies,
                    sortBy, stats, loading, calls >>
    /\ UNCHANGED << timers, timeout, burst, frame >>

-----------------------------------------------------------------------------
(* SpecWindow: the views rendered from record sets at and above the caps   *)

\* how far above the caps the generated record sets go
Over == 1

Digit3(i) == << Digits[((i \div 100) % 10) + 1], Digits[((i \div 10) % 10) + 1],
                Digits[(i % 10) + 1] >>
VendorName(i) == << "v" >> \o Digit3(i)
AgencyName(j) == << "g" >> \o Digit3(j)

\* record i of a generated set: n records over nV vendors and nA agencies
PatternAmount(pattern, i, n) ==
    CASE pattern = "up" -> i + 1
      [] pattern = "down" -> n - i
      [] OTHER -> 1
Generated(n, nV, nA, pattern) ==
    [ k \in 1..n |-> Rec(VendorName((k - 1) % nV), AgencyName((k - 1) % nA),
                         PatternAmount(pattern, k - 1, n), << >>, << >>) ]

\* record sets with every pair distinct: in the first, vendors and agencies are
\* shared between records and the amounts grow; in the second every record has
\* a vendor of its own and the amounts shrink
GeneratedData ==
    { Generated(maxLinks + e, maxVendors + e, maxAgencies + e, "up") : e \in 0..Over }
    \cup
    { Generated(maxLinks + e, maxLinks + e, maxAgencies + e, "down") : e \in 0..Over }

\* the data has been fetched and rendered with the default filters; the matrix
\* tab, when it is the active one, has been opened since
InitWindow ==
    /\ rawData \in GeneratedData \cup SampleData
    /\ sortBy = "amount-desc"
    /\ activeTab \in { "sankey", "matrix" }
    /\ searchQuery = << >>
    /\ selectedVendors = << >>
    /\ selectedAgencies = << >>
    /\ filteredData = applyFilters(rawData, << >>, << >>, << >>, "amount-desc")
    /\ stats = StatsOf(filteredData)
    /\ sankeyData = IF Len(filteredData) = 0 THEN NoSankey
                    ELSE WithCalled(aggregateForSankey(filteredData, "amount-desc"))
    /\ sankeyChart = SankeyRender(filteredData, sankeyData, FirstPane)
    /\ matrixData = IF activeTab = "matrix" /\ Len(filteredData) # 0
                    THEN WithCalled(aggregateForMatrix(filteredData, "amount-desc"))
                    ELSE NoMatrix
    /\ matrixChart = IF activeTab = "matrix" THEN MatrixRender(filteredData, matrixData)
                     ELSE NoMatrixChart
    /\ loading = FALSE
    /\ calls = << >>
    /\ timers = NoTimers
    /\ timeout = NoTimeout
    /\ burst = NoBurst
    /\ frame = NoFrame

NextWindow == \E s \in SortSpecs : SortChange(s)

SpecWindow == InitWindow /\ [][NextWindow]_vars

\* the amounts of the records of one vendor / one agency
VendorAmounts(data, name) ==
    [ i \in 1..Len(data) |-> IF VendorOf(data[i]) = name THEN AmountOf(data[i]) ELSE 0 ]
AgencyAmounts(data, name) ==
    [ i \in 1..Len(data) |-> IF AgencyOf(data[i]) = name THEN AmountOf(data[i]) ELSE 0 ]
VendorCount(data, name) == Cardinality({ i \in 1..Len(data) : VendorOf(data[i]) = name })
AgencyCount(data, name) == Cardinality({ i \in 1..Len(data) : AgencyOf(data[i]) = name })

\* C3 (as claimed): windowing changes no reported total: the header statistics,
\* the grand total of the matrix and the total shown for every entity of the
\* matrix are the values computed over the whole filtered record set.
C3_TotalsUnwindowed ==
    /\ stats.contracts = Len(filteredData)
    /\ stats.totalAmount = SumSeq(AmountsOf(filteredData))
    /\ matrixChart.state = "drawn" =>
         /\ matrixChart.grandTotal = SumSeq(AmountsOf(filteredData))
         /\ \A i \in 1..Len(matrixChart.vendorOrder) :
              matrixChart.vendorOrder[i].total =
                SumSeq(VendorAmounts(filteredData, matrixChart.vendorOrder[i].name))
         /\ \A j \in 1..Len(matrixChart.agencyOrder) :
              matrixChart.agencyOrder[j].total =
                SumSeq(AgencyAmounts(filteredData, matrixChart.agencyOrder[j].name))

\* the part of C3 the code keeps: header statistics and entity totals
C3_StatsAndEntityTotals ==
    /\ stats.contracts = Len(filteredData)
    /\ stats.totalAmount = SumSeq(AmountsOf(filteredData))
    /\ matrixChart.state = "drawn" =>
         /\ \A i \in 1..Len(matrixChart.vendorOrder) :
              matrixChart.vendorOrder[i].total =
                SumSeq(VendorAmounts(filteredData, matrixChart.vendorOrder[i].name))
         /\ \A j \in 1..Len(matrixChart.agencyOrder) :
              matrixChart.agencyOrder[j].total =
                SumSeq(AgencyAmounts(filteredData, matrixChart.agencyOrder[j].name))

\* C4: the graph handed to the layout by SankeyChart.render has at most maxLinks
\* (100) links, and every node of it is the source or the target of one of them.
C4_GraphWindow ==
    sankeyChart.state = "drawn" =>
        /\ Len(sankeyChart.links) <= maxLinks
        /\ \A i \in 1..Len(sankeyChart.nodes) :
             \E k \in 1..Len(sankeyChart.links) :
                \/ sankeyChart.links[k].source = sankeyChart.nodes[i].index
                \/ sankeyChart.links[k].target = sankeyChart.nodes[i].index

\* after a change of sort the aggregation has more than maxLinks links, and a node
\* of it is referenced by no retained link and is left out of the graph
C4_Witness ==
    /\ sankeyChart.state = "drawn"
    /\ activeTab = "sankey"
    /\ sortBy = "name-asc"
    /\ Len(sankeyData.links) > maxLinks
    /\ Len(sankeyChart.links) = maxLinks
    /\ Len(sankeyChart.nodes) < Len(sankeyData.nodes)

PairsOf(links) == { << links[k].vendor, links[k].agency >> : k \in 1..Len(links) }
DroppedLinks ==
    LET kept == PairsOf(sankeyChart.links)
    IN  { k \in 1..Len(sankeyData.links) :
            << sankeyData.links[k].vendor, sankeyData.links[k].agency >> \notin kept }
DroppedVendors ==
    { i \in 1..Len(matrixData.vendors) : i > Len(matrixChart.vendorOrder) }
DroppedAgencies ==
    { j \in 1..Len(matrixData.agencies) : j > Len(matrixChart.agencyOrder) }
Smaller(a, b) == IF a < b THEN a ELSE b

\* the links kept for the graph are those with the largest amounts
LinksKeptByAmount ==
    (activeTab = "sankey" /\ sankeyChart.state = "drawn") =>
        /\ Len(sankeyChart.links) = Smaller(maxLinks, Len(sankeyData.links))
        /\ LET dropped == DroppedLinks
           IN  \A d \in dropped : \A k \in 1..Len(sankeyChart.links) :
                  sankeyChart.links[k].value >= sankeyData.links[d].value

\* C5 (as claimed): whatever the sort specification, the links kept for the graph
\* and the vendors and agencies kept for the matrix are those with the largest
\* amounts.
C5_KeptByAmount ==
    /\ LinksKeptByAmount
    /\ (activeTab = "matrix" /\ matrixChart.state = "drawn") =>
        /\ \A d \in DroppedVendors : \A i \in 1..Len(matrixChart.vendorOrder) :
              matrixChart.vendorOrder[i].total >= matrixData.vendorTotals[d]
        /\ \A d \in DroppedAgencies : \A j \in 1..Len(matrixChart.agencyOrder) :
              matrixChart.agencyOrder[j].total >= matrixData.agencyTotals[d]

\* a kept entity k comes before a dropped entity d in the active sort order
ComesFirst(field, multiplier, kName, kTotal, kCount, dName, dTotal, dCount) ==
    CASE field = "amount" -> multiplier * (kTotal - dTotal) <= 0
      [] field = "count" -> multiplier * (kCount - dCount) <= 0
      [] OTHER -> multiplier * localeCompare(kName, dName) < 0

\* C5 (amended): for every sort specification the links kept for the graph are
\* those with the largest amounts; the vendors and agencies kept for the matrix
\* are the first maxVendors (50) and maxAgencies (30) of the active sort order,
\* which are those with the largest amounts under 'amount-desc'.
C5_KeptBySortOrder ==
    /\ LinksKeptByAmount
    /\ (activeTab = "matrix" /\ matrixChart.state = "drawn") =>
        /\ Len(matrixChart.vendorOrder) = Smaller(maxVendors, Len(matrixData.vendors))
        /\ Len(matrixChart.agencyOrder) = Smaller(maxAgencies, Len(matrixData.agencies))
        /\ \A d \in DroppedVendors : \A i \in 1..Len(matrixChart.vendorOrder) :
              ComesFirst(FieldOf(sortBy), MultiplierOf(sortBy),
                         matrixChart.vendorOrder[i].name, matrixChart.vendorOrder[i].total,
                         VendorCount(filteredData, matrixChart.vendorOrder[i].name),
                         matrixData.vendors[d], matrixData.vendorTotals[d],
                         VendorCount(filteredData, matrixData.vendors[d]))
        /\ \A d \in DroppedAgencies : \A j \in 1..Len(matrixChart.agencyOrder) :
              ComesFirst(FieldOf(sortBy), MultiplierOf(sortBy),
                         matrixChart.agencyOrder[j].name, matrixChart.agencyOrder[j].total,
                         AgencyCount(filteredData, matrixChart.agencyOrder[j].name),
                         matrixData.agencies[d], matrixData.agencyTotals[d],
                         AgencyCount(filteredData, matrixData.agencies[d]))

\* links and vendors are dropped under a sort other than 'amount-desc', and the
\* amounts differ
C5_Witness ==
    \/ /\ activeTab = "sankey" /\ sankeyChart.state = "drawn" /\ sortBy = "name-asc"
       /\ DroppedLinks # {}
       /\ \E k \in 1..Len(sankeyChart.links) : \E d \in DroppedLinks :
             sankeyChart.links[k].value > sankeyData.links[d].value
    \/ /\ activeTab = "matrix" /\ matrixChart.state = "drawn" /\ sortBy = "amount-asc"
       /\ DroppedVendors # {}
       /\ \E i \in 1..Len(matrixChart.vendorOrder) : \E d \in DroppedVendors :
             matrixChart.vendorOrder[i].total < matrixData.vendorTotals[d]

-----------------------------------------------------------------------------
(* API.fetchAll, API.fetchPage and API.processData (js/api.js)             *)

PAGE_SIZE == 10000
\* the literal of  if (offset > 100000)
SafetyLimit == 100000

\* this.fetchPage({ ...params, offset, limit: this.PAGE_SIZE }): the $offset and
\* $limit that API.buildUrl writes into the URL
PageRequest(offset) == [ offset |-> offset, limit |-> PAGE_SIZE ]

\* the locals of one API.fetchAll call, its outcome and the value it returned,
\* with the page requests it has issued and the length of each page received;
\* the call is at its first await, the request at offset 0 issued. For the
\* App.fetchAndRender that awaits the call: settled is 0 until the promise of
\* the call settles and then its rank among the promises settled, resumed tells
\* that App.fetchAndRender has gone on after its await. The field before is
\* history: App.rawData and App.filteredData at the moment App.fetchAndRender
\* was called, and the number of earlier calls then not yet completed
NoBefore == [ rawData |-> << >>, filteredData |-> << >>, open |-> 0 ]
NewCall ==
    [ offset |-> 0, hasMore |-> TRUE, allData |-> << >>, status |-> "awaiting",
      result |-> << >>, requests |-> << PageRequest(0) >>, received |-> << >>,
      settled |-> 0, resumed |-> FALSE, before |-> NoBefore ]

\* a loop without the test of the safety limit
FetchAllStepNoSafetyLimit(call, pageLength, pushed) ==
    IF pageLength = 0
    THEN [ call EXCEPT !.hasMore = FALSE, !.received = Append(@, pageLength) ]
    ELSE LET offset == call.offset + PAGE_SIZE
         IN  [ call EXCEPT !.allData = pushed,
                           !.offset = offset,
                           !.hasMore = ~(pageLength < PAGE_SIZE),
                           !.received = Append(@, pageLength) ]

\* a loop that goes on after a page shorter than PAGE_SIZE
FetchAllStepPastShortPages(call, pageLength, pushed) ==
    IF pageLength = 0
    THEN [ call EXCEPT !.hasMore = FALSE, !.received = Append(@, pageLength) ]
    ELSE LET offset == call.offset + PAGE_SIZE
         IN  [ call EXCEPT !.allData = pushed,
                           !.offset = offset,
                           !.hasMore = ~(offset > SafetyLimit),
                           !.received = Append(@, pageLength) ]

\* one turn of the while loop once fetchPage has returned pageData: pageLength is
\* pageData.length and pushed is allData after allData.push(...pageData)
FetchAllStep(call, pageLength, pushed) ==
    IF pageLength = 0
    THEN [ call EXCEPT !.hasMore = FALSE, !.received = Append(@, pageLength) ]
    ELSE LET offset == call.offset + PAGE_SIZE
         IN  [ call EXCEPT !.allData = pushed,
                           !.offset = offset,
                           !.hasMore = ~(offset > SafetyLimit) /\ ~(pageLength < PAGE_SIZE),
                           !.received = Append(@, pageLength) ]

\* the loop test: when hasMore is false fetchAll returns processData(allData),
\* which the caller passes as processed; otherwise the next page is requested
FetchAllReturn(call, processed) ==
    IF call.hasMore THEN [ call EXCEPT !.requests = Append(@, PageRequest(call.offset)) ]
    ELSE [ call EXCEPT !.status = "returned", !.result = processed ]

\* fetchPage throws: fetchAll throws with it and returns nothing
FetchAllThrow(call) == [ call EXCEPT !.status = "thrown" ]

IsNotSpace(c) == c # " "
IsNotDigit(c) == c \notin Range(Digits)
DigitValue(c) == IndexIn(Digits, c) - 1

\* the value Infinity of JavaScript: no integer, and equal to no integer
Infinity == "Infinity"
InfinityText == << "I", "n", "f", "i", "n", "i", "t", "y" >>

\* parseFloat(s) || 0  on strings without sign, decimal point or exponent: after
\* the leading white space, Infinity when the text starts with "Infinity", else
\* the number written by the digits that follow, 0 (from NaN) when there is none
parseFloatOr0(s) ==
    LET text == Positions(s, IsNotSpace)
        rest == IF text = << >> THEN << >> ELSE SubSeq(s, Head(text), Len(s))
        other == Positions(rest, IsNotDigit)
        n == IF other = << >> THEN Len(rest) ELSE Head(other) - 1
        Shift(acc, c) == acc * 10 + DigitValue(c)
    IN  IF Len(rest) >= Len(InfinityText) /\ SubSeq(rest, 1, Len(InfinityText)) = InfinityText
        THEN Infinity
        ELSE ForEach(Shift, 0, rest, 1, n)

\* part && part.trim()
HasText(part) == Positions(part, IsNotSpace) # << >>

\* Array.prototype.join
Join(parts, separator) ==
    LET Glue(acc, part) == acc \o separator \o part
    IN  IF parts = << >> THEN << >> ELSE ForEach(Glue, parts[1], parts, 2, Len(parts))

\* Utils.concatenateOtherInfo
concatenateOtherInfo(record) ==
    Join(SelectSeq(<< record.other_info_1, record.other_info_2, record.other_info_3 >>,
                   HasText),
         << " ", "|", " " >>)

\* API.processData
processData(data) ==
    [ i \in 1..Len(data) |->
        [ vendor_name |-> data[i].vendor_name,
          agency_name |-> data[i].agency_name,
          short_title |-> data[i].short_title,
          other_info_1 |-> data[i].other_info_1,
          other_info_2 |-> data[i].other_info_2,
          other_info_3 |-> data[i].other_info_3,
          contract_amount |-> parseFloatOr0(data[i].contract_amount),
          additional_info |-> concatenateOtherInfo(data[i]) ] ]

\* Utils.showLoading / Utils.hideLoading
showLoading == TRUE
hideLoading == FALSE

\* most fetchAll calls issued in one behaviour
MaxCalls == 2

-----------------------------------------------------------------------------
(* SpecFetch: API.fetchAll calls paging through result sets of any size    *)
(* A page is represented by its length, allData by the lengths of the      *)
(* pages pushed, so that the rows received number SumSeq(allData).         *)

\* what a page request can bring: no row, a short page, a full page
PageLengths == { 0, 1, PAGE_SIZE - 1, PAGE_SIZE }

InitFetch ==
    /\ rawData = << >>
    /\ filteredData = << >>
    /\ activeTab = "sankey"
    /\ searchQuery = << >>
    /\ selectedVendors = << >>
    /\ selectedAgencies = << >>
    /\ sortBy = "amount-desc"
    /\ stats = NoStats
    /\ sankeyData = NoSankey
    /\ matrixData = NoMatrix
    /\ sankeyChart = NoSankeyChart
    /\ matrixChart = NoMatrixChart
    /\ loading = FALSE
    /\ calls = << >>
    /\ timers = NoTimers
    /\ timeout = NoTimeout
    /\ burst = NoBurst
    /\ frame = NoFrame

\* API.fetchAll is called: up to the first await
FetchAllCalled ==
    /\ Len(calls) < MaxCalls
    /\ calls' = Append(calls, NewCall)
    /\ loading' = showLoading
    /\ UNCHANGED << rawData, filteredData, activeTab, searchQuery, selectedVendors,
                    selectedAgencies, sortBy, stats, sankeyData, matrixData,
                    sankeyChart, matrixChart >>
    /\ UNCHANGED << timers, timeout, burst, frame >>

\* the page awaited by call c arrives with n rows: up to the next await or the return
FetchPageReturns(c, n) ==
    /\ calls[c].status = "awaiting"
    /\ LET stepped == FetchAllStep(calls[c], n, Append(calls[c].allData, n))
           after == FetchAllReturn(stepped, stepped.allData)
       IN  /\ calls' = [ calls EXCEPT ![c] = after ]
           /\ loading' = IF after.status = "returned" THEN hideLoading ELSE loading
    /\ UNCHANGED << rawData, filteredData, activeTab, searchQuery, selectedVendors,
                    selectedAgencies, sortBy, stats, sankeyData, matrixData,
                    sankeyChart, matrixChart >>
    /\ UNCHANGED << timers, timeout, burst, frame >>

\* the page awaited by call c fails (network error or status outside 2xx)
FetchPageThrows(c) ==
    /\ calls[c].status = "awaiting"
    /\ calls' = [ calls EXCEPT ![c] = FetchAllThrow(calls[c]) ]
    /\ loading' = hideLoading
    /\ UNCHANGED << rawData, filteredData, activeTab, searchQuery, selectedVendors,
                    selectedAgencies, sortBy, stats, sankeyData, matrixData,
                    sankeyChart, matrixChart >>
    /\ UNCHANGED << timers, timeout, burst, frame >>

NextFetch ==
    \/ FetchAllCalled
    \/ \E c \in 1..Len(calls) : \E n \in PageLengths : FetchPageReturns(c, n)
    \/ \E c \in 1..Len(calls) : FetchPageThrows(c)

SpecFetch == InitFetch /\ [][NextFetch]_vars

\* C6 (as claimed): API.fetchAll never returns more than 100,000 records: a call
\* that has returned has returned at most SafetyLimit rows.
C6_AtMostSafetyLimit ==
    \A c \in 1..Len(calls) :
        calls[c].status = "returned" => SumSeq(calls[c].result) <= SafetyLimit

\* what the loop does keep to: a call that has returned has requested at most
\* SafetyLimit \div PAGE_SIZE + 1 pages and returned every row it received
FetchAllPagesBound ==
    \A c \in 1..Len(calls) :
        calls[c].status = "returned" =>
            /\ Len(calls[c].result) <= SafetyLimit \div PAGE_SIZE + 1
            /\ calls[c].result = calls[c].allData

-----------------------------------------------------------------------------
(* SpecApp: overlapping App.fetchAndRender calls (js/app.js)               *)

\* a row as the server sends it (the query asks for rows that have a vendor_name)
RawRow(v, a, title, amount, info1, info2, info3) ==
    [ vendor_name |-> v, agency_name |-> a, short_title |-> title,
      contract_amount |-> amount, other_info_1 |-> info1, other_info_2 |-> info2,
      other_info_3 |-> info3 ]

ServerRows ==
    { RawRow(<< "A", "b" >>, << "X" >>, << "B", "u", "s" >>, << "1", "2" >>,
             << "p" >>, << >>, << "q" >>),
      RawRow(<< "b" >>, << "X" >>, << >>, << >>, << " " >>, << >>, << >>),
      RawRow(<< "C" >>, << >>, << >>, << " ", "7", ":" >>, << >>, << "x" >>, << >>) }

\* longest page the server sends in SpecApp (every page is shorter than PAGE_SIZE)
MaxRows == 1
ServerPages == SeqsUpTo(ServerRows, MaxRows)

ErrorSankeyChart(pane) == Replaced(pane, "error")
ErrorMatrixChart == [ state |-> "error", vendorOrder |-> << >>, agencyOrder |-> << >>,
                      cells |-> << >>, grandTotal |-> 0 ]

\* the error message is what the active pane shows
ErrorShown ==
    \/ activeTab = "sankey" /\ sankeyChart.state = "error"
    \/ activeTab = "matrix" /\ matrixChart.state = "error"

\* the state before DOMContentLoaded: App.init has not run
InitApp == InitFetch

\* App.init has run: the handlers of the tabs, the buttons and the selects are
\* bound and SankeyChart.init has registered a resize listener
Initialized == sankeyChart.listeners > 0

\* the continuation of the App.fetchAndRender that awaits call c is in the
\* microtask queue
Queued(c) == calls[c].settled > 0 /\ ~calls[c].resumed
\* no continuation is queued: the browser can run the next task
NoMicrotask == \A c \in 1..Len(calls) : ~Queued(c)
\* the continuations run in the order in which their promises settled
FirstQueued(c) ==
    /\ Queued(c)
    /\ \A d \in 1..Len(calls) : Queued(d) => calls[d].settled >= calls[c].settled

\* the promise of a call settles: the continuation of its caller is queued
Settle(call) ==
    [ call EXCEPT !.settled = 1 + Cardinality({ d \in 1..Len(calls) : calls[d].settled > 0 }) ]

\* App.fetchAndRender up to its await: showLoading, Filters.getApiParams,
\* API.fetchAll up to its first await
CallFetchAll ==
    /\ Len(calls) < MaxCalls
    /\ calls' = Append(calls,
                       [ NewCall EXCEPT !.before =
                           [ rawData |-> rawData, filteredData |-> filteredData,
                             open |-> Cardinality({ d \in 1..Len(calls) :
                                                      ~calls[d].resumed }) ] ])
    /\ loading' = showLoading

\* App.init, on DOMContentLoaded: Filters.init, SankeyChart.init,
\* MatrixChart.init, the handlers are bound, App.fetchAndRender is called
AppInit ==
    /\ ~Initialized
    /\ calls = << >>
    /\ sankeyChart' = SankeyInit(sankeyChart)
    /\ CallFetchAll
    /\ UNCHANGED << rawData, filteredData, activeTab, searchQuery, selectedVendors,
                    selectedAgencies, sortBy, stats, sankeyData, matrixData,
                    matrixChart >>
    /\ UNCHANGED << timers, timeout, burst, frame >>

\* App.fetchAndRender is called by the click handler of the Apply button or of
\* the Refresh button
FetchAndRender ==
    /\ Initialized
    /\ NoMicrotask
    /\ CallFetchAll
    /\ UNCHANGED << rawData, filteredData, activeTab, searchQuery, selectedVendors,
                    selectedAgencies, sortBy, stats, sankeyData, matrixData,
                    sankeyChart, matrixChart >>
    /\ UNCHANGED << timers, timeout, burst, frame >>

\* Filters.reset, the click handler of the Reset button: the filter state is
\* set to its defaults and App.fetchAndRender is called; what is shown stays
\* until the response is rendered
Reset ==
    /\ Initialized
    /\ NoMicrotask
    /\ searchQuery' = << >>
    /\ selectedVendors' = << >>
    /\ selectedAgencies' = << >>
    /\ sortBy' = "amount-desc"
    /\ CallFetchAll
    /\ UNCHANGED << rawData, filteredData, activeTab, stats, sankeyData, matrixData,
                    sankeyChart, matrixChart >>
    /\ UNCHANGED << timers, timeout, burst, frame >>

\* the page awaited by call c arrives: API.fetchAll goes on and, when it leaves
\* its loop, processes the rows, hides the overlay in its finally and returns;
\* the continuation of App.fetchAndRender is queued
ResponseArrives(c, page) ==
    /\ calls[c].status = "awaiting"
    /\ LET stepped == FetchAllStep(calls[c], Len(page), calls[c].allData \o page)
           after == FetchAllReturn(stepped, processData(stepped.allData))
       IN  IF after.status = "returned"
           THEN /\ calls' = [ calls EXCEPT ![c] = Settle(after) ]
                /\ loading' = hideLoading
           ELSE /\ calls' = [ calls EXCEPT ![c] = after ]
                /\ UNCHANGED loading
    /\ UNCHANGED << rawData, filteredData, activeTab, searchQuery, selectedVendors,
                    selectedAgencies, sortBy, stats, sankeyData, matrixData,
                    sankeyChart, matrixChart >>
    /\ UNCHANGED << timers, timeout, burst, frame >>

\* App.showError: the message replaces the content of the active pane
ShowError ==
    IF activeTab = "sankey"
    THEN sankeyChart' = ErrorSankeyChart(sankeyChart) /\ UNCHANGED matrixChart
    ELSE matrixChart' = ErrorMatrixChart /\ UNCHANGED sankeyChart

\* a failure that hands what the failed call had received to App.rawData
RequestFailsKeepingPages(c) ==
    /\ calls[c].status = "awaiting"
    /\ calls' = [ calls EXCEPT ![c] = Settle(FetchAllThrow(calls[c])) ]
    /\ loading' = hideLoading
    /\ rawData' = IF calls[c].allData = << >> THEN rawData
                  ELSE processData(calls[c].allData)
    /\ UNCHANGED << filteredData, activeTab, searchQuery, selectedVendors,
                    selectedAgencies, sortBy, stats, sankeyData, matrixData,
                    sankeyChart, matrixChart >>
    /\ UNCHANGED << timers, timeout, burst, frame >>

\* the page awaited by call c fails: fetchPage throws, fetchAll hides the overlay
\* in its finally and throws; the catch of App.fetchAndRender is queued
RequestFails(c) ==
    /\ calls[c].status = "awaiting"
    /\ calls' = [ calls EXCEPT ![c] = Settle(FetchAllThrow(calls[c])) ]
    /\ loading' = hideLoading
    /\ UNCHANGED << rawData, filteredData, activeTab, searchQuery, selectedVendors,
                    selectedAgencies, sortBy, stats, sankeyData, matrixData,
                    sankeyChart, matrixChart >>
    /\ UNCHANGED << timers, timeout, burst, frame >>

\* App.fetchAndRender goes on after its await with the value call c returned:
\* rawData is assigned, SankeyChart.init() clears #sankey-chart,
\* App.applyClientFilters() runs, the finally hides the overlay
FetchAndRenderResumes(c) ==
    /\ FirstQueued(c)
    /\ calls[c].status = "returned"
    /\ calls' = [ calls EXCEPT ![c].resumed = TRUE ]
    /\ rawData' = calls[c].result
    /\ ApplyClientFilters(rawData', searchQuery, selectedVendors, selectedAgencies,
                          sortBy, activeTab, SankeyInit(sankeyChart))
    /\ loading' = hideLoading
    /\ UNCHANGED << activeTab, searchQuery, selectedVendors, selectedAgencies, sortBy >>
    /\ UNCHANGED << timers, timeout, burst, frame >>

\* App.fetchAndRender goes on in its catch after call c has thrown: the error is
\* shown, the finally hides the overlay
FetchAndRenderCatches(c) ==
    /\ FirstQueued(c)
    /\ calls[c].status = "thrown"
    /\ calls' = [ calls EXCEPT ![c].resumed = TRUE ]
    /\ ShowError
    /\ loading' = hideLoading
    /\ UNCHANGED << rawData, filteredData, activeTab, searchQuery, selectedVendors,
                    selectedAgencies, sortBy, stats, sankeyData, matrixData >>
    /\ UNCHANGED << timers, timeout, burst, frame >>

\* a click on a tab or a change of the sort-by select, as a task of its own
TabClick(t) == Initialized /\ NoMicrotask /\ SwitchTab(t)
SortSelect(s) == Initialized /\ NoMicrotask /\ SortChange(s)

NextApp ==
    \/ AppInit
    \/ FetchAndRender
    \/ Reset
    \/ \E c \in 1..Len(calls) : \E page \in ServerPages : ResponseArrives(c, page)
    \/ \E c \in 1..Len(calls) : RequestFails(c)
    \/ \E c \in 1..Len(calls) : FetchAndRenderResumes(c)
    \/ \E c \in 1..Len(calls) : FetchAndRenderCatches(c)
    \/ \E t \in { "sankey", "matrix" } : TabClick(t)
    \/ \E s \in SortSpecs : SortSelect(s)

SpecApp == InitApp /\ [][NextApp]_vars

\* every App.fetchAndRender call has completed with the rows of its request
AllReturned ==
    \A c \in 1..Len(calls) : calls[c].status = "returned" /\ calls[c].resumed

\* C7 (as claimed): once two overlapping App.fetchAndRender calls have both
\* completed, rawData is the response of the call issued last and filteredData is
\* what the filters make of it, in whatever order the two responses arrived.
C7_LastRequestWins ==
    (Len(calls) >= 2 /\ AllReturned) =>
        /\ rawData = calls[Len(calls)].result
        /\ filteredData = applyFilters(calls[Len(calls)].result, searchQuery,
                                       selectedVendors, selectedAgencies, sortBy)

\* what the code does keep to: rawData is the response of one of the calls
RawDataIsSomeResponse ==
    rawData = << >> \/ \E c \in 1..Len(calls) :
                          calls[c].status = "returned" /\ rawData = calls[c].result

-----------------------------------------------------------------------------
(* SpecFail: page requests that fail after full pages have been received   *)

\* a full page: PAGE_SIZE rows
FullPages ==
    { [ i \in 1..PAGE_SIZE |-> RawRow(<< "A", "b" >>, << "X" >>, << >>, << "1" >>,
                                      << >>, << >>, << >>) ] }

\* what the first request of a call can bring in SpecFail: a short page of two
\* rows that the sorts order differently, or a full page
FailPages ==
    { << RawRow(<< "A", "b" >>, << "X" >>, << "B", "u", "s" >>, << "1", "2" >>,
                << "p" >>, << >>, << "q" >>),
         RawRow(<< "b" >>, << "X" >>, << >>, << >>, << " " >>, << >>, << >>) >> }
    \cup FullPages

\* App.init, Apply or Refresh, the answer to the first request of a call (a call
\* that got a full page asks for a second one, which can only fail), a failing
\* request, the two ways App.fetchAndRender goes on, and a sort change
NextFail ==
    \/ AppInit
    \/ FetchAndRender
    \/ \E c \in 1..Len(calls) : \E page \in FailPages :
          calls[c].offset = 0 /\ ResponseArrives(c, page)
    \/ \E c \in 1..Len(calls) : RequestFails(c)
    \/ \E c \in 1..Len(calls) : FetchAndRenderResumes(c)
    \/ \E c \in 1..Len(calls) : FetchAndRenderCatches(c)
    \/ \E s \in { "amount-asc", "name-desc" } : SortSelect(s)

SpecFail == InitApp /\ [][NextFail]_vars

\* the step in which the page awaited by call c fails
FailsIn(c) == calls[c].status = "awaiting" /\ calls'[c].status # "awaiting"
                 /\ Len(calls'[c].received) = Len(calls[c].received)
\* the step in which the catch of App.fetchAndRender runs for call c
CaughtIn(c) == calls[c].status = "thrown" /\ ~calls[c].resumed /\ calls'[c].resumed
\* the step in which call c is issued
IssuedIn(c) == Len(calls) = c - 1 /\ Len(calls') = c
\* no other App.fetchAndRender was under way while call c was
Alone(c) == calls[c].before.open = 0 /\ Len(calls) = c

-----------------------------------------------------------------------------
(* SpecFilter: Filters.applyFilters under every filter state               *)

\* longest record list drawn in SpecFilter
MaxFilterLen == 2

Queries ==
    { << >>, << "b" >>, << "a", "B" >>, << "B", "U" >>, << "X" >>, << "|", " ", "x" >>,
      << "z" >> }
VendorSelections ==
    { << >>, << << "A", "b" >> >>, << << "b" >>, << "A", "b" >> >>, << << "Q" >> >> }
AgencySelections ==
    { << >>, << << "X" >> >>, << << "Y" >>, << "C" >> >> }

\* the records are fetched and SankeyChart.init() has run, the selections and
\* the sort are chosen, no filter is applied yet
InitFilter ==
    /\ rawData \in SeqsUpTo(SampleRecords, MaxFilterLen)
    /\ selectedVendors \in VendorSelections
    /\ selectedAgencies \in AgencySelections
    /\ sortBy \in SortSpecs
    /\ filteredData = << >>
    /\ activeTab = "sankey"
    /\ searchQuery = << >>
    /\ stats = NoStats
    /\ sankeyData = NoSankey
    /\ matrixData = NoMatrix
    /\ sankeyChart = FirstPane
    /\ matrixChart = NoMatrixChart
    /\ loading = FALSE
    /\ calls = << >>
    /\ timers = NoTimers
    /\ timeout = NoTimeout
    /\ burst = NoBurst
    /\ frame = NoFrame

\* the debounced callback of the search input (Filters.bindSearch)
SearchInput(value) ==
    /\ searchQuery' = value
    /\ ApplyClientFilters(rawData, value, selectedVendors, selectedAgencies, sortBy,
                          activeTab, sankeyChart)
    /\ UNCHANGED << rawData, activeTab, selectedVendors, selectedAgencies, sortBy,
                    loading, calls >>
    /\ UNCHANGED << timers, timeout, burst, frame >>

NextFilter == \E value \in Queries : SearchInput(value)

SpecFilter == InitFilter /\ [][NextFilter]_vars

\* App.applyClientFilters has run (it renders the graph pane)
Applied == sankeyChart.state # "blank"

Occurrences(s, x) == Cardinality({ i \in 1..Len(s) : s[i] = x })

\* some substring of field equals q up to case
ContainsIgnoringCase(field, q) ==
    \E i \in 1..Len(field) : \E j \in i..Len(field) :
        toLowerCase(SubSeq(field, i, j)) = toLowerCase(q)

SearchPasses(r, q) ==
    q = << >> \/ \E f \in { r.vendor_name, r.agency_name, r.short_title, r.additional_info } :
                    ContainsIgnoringCase(f, q)
VendorPasses(r, sv) == sv = << >> \/ r.vendor_name \in Range(sv)
AgencyPasses(r, sa) == sa = << >> \/ r.agency_name \in Range(sa)

\* C9: Filters.applyFilters returns exactly the records of its input that satisfy
\* the search predicate AND the vendor predicate AND the agency predicate, each as
\* many times as the input holds it; an empty selection filters nothing.
C9_ExactlyThePassing ==
    Applied =>
        \A r \in Range(rawData) \cup Range(filteredData) :
            Occurrences(filteredData, r) =
                IF /\ SearchPasses(r, searchQuery)
                   /\ VendorPasses(r, selectedVendors)
                   /\ AgencyPasses(r, selectedAgencies)
                THEN Occurrences(rawData, r) ELSE 0

\* the three filters are active, a record passes them and another one does not
C9_Witness ==
    /\ Applied
    /\ searchQuery # << >> /\ selectedVendors # << >> /\ selectedAgencies # << >>
    /\ Len(filteredData) >= 1
    /\ Len(filteredData) < Len(rawData)

\* C10: with a non-empty query a record passes the search iff one of vendor_name,
\* agency_name, short_title, additional_info contains the query up to case (an
\* empty field never does); a query no field contains yields the empty result;
\* the empty query keeps every record the selections keep.
C10_SearchPredicate ==
    Applied =>
        /\ \A i \in 1..Len(rawData) :
              (VendorPasses(rawData[i], selectedVendors) /\
               AgencyPasses(rawData[i], selectedAgencies)) =>
                  ( rawData[i] \in Range(filteredData) <=>
                      ( searchQuery = << >> \/
                        \E f \in Range(SearchFields(rawData[i])) :
                            f # << >> /\ ContainsIgnoringCase(f, searchQuery) ) )
        /\ ( searchQuery # << >> /\
             \A i \in 1..Len(rawData) : \A f \in Range(SearchFields(rawData[i])) :
                 ~ContainsIgnoringCase(f, searchQuery) ) => filteredData = << >>
        /\ ( searchQuery = << >> /\ selectedVendors = << >> /\ selectedAgencies = << >> ) =>
              Len(filteredData) = Len(rawData)

\* a query with capitals keeps a record through a field that differs from it in
\* case and drops another record
C10_Witness ==
    /\ Applied
    /\ searchQuery # toLowerCase(searchQuery)
    /\ selectedVendors = << >> /\ selectedAgencies = << >>
    /\ Len(filteredData) >= 1
    /\ Len(filteredData) < Len(rawData)
    /\ \E i \in 1..Len(filteredData) :
          \A f \in Range(SearchFields(filteredData[i])) : ~includes(f, searchQuery)

-----------------------------------------------------------------------------
(* The order of the output of Filters.applyFilters                         *)

\* a comes no later than b in the order the sort specification asks for (the
\* count sorts order the records by amount)
InSortOrder(a, b, sortSpec) ==
    CASE sortSpec \in { "amount-desc", "count-desc" } -> a.contract_amount >= b.contract_amount
      [] sortSpec \in { "amount-asc", "count-asc" } -> a.contract_amount <= b.contract_amount
      [] sortSpec = "name-asc" ->
           localeCompare(toLowerCase(a.vendor_name), toLowerCase(b.vendor_name)) <= 0
      [] OTHER ->
           localeCompare(toLowerCase(a.vendor_name), toLowerCase(b.vendor_name)) >= 0

\* a and b compare equal under the sort specification
TiesUnder(a, b, sortSpec) == InSortOrder(a, b, sortSpec) /\ InSortOrder(b, a, sortSpec)

\* the records of rawData that pass the filters, in input order
PassingRecords ==
    LET Passes(r) == /\ SearchPasses(r, searchQuery)
                     /\ VendorPasses(r, selectedVendors)
                     /\ AgencyPasses(r, selectedAgencies)
    IN  SelectSeq(rawData, Passes)

Rearrangements(n) == { p \in [ 1..n -> 1..n ] : \A i, j \in 1..n : p[i] = p[j] => i = j }

\* C11: the output of Filters.applyFilters is ordered by the active sort field and
\* direction, and it is the passing records rearranged so that records that
\* compare equal keep their relative input order.
C11_SortedAndStable ==
    Applied =>
        /\ \A k \in 1..(Len(filteredData) - 1) :
              InSortOrder(filteredData[k], filteredData[k + 1], sortBy)
        /\ Len(filteredData) = Len(PassingRecords)
        /\ \E p \in Rearrangements(Len(filteredData)) :
              /\ \A k \in 1..Len(filteredData) : filteredData[k] = PassingRecords[p[k]]
              /\ \A k, l \in 1..Len(filteredData) :
                    ( k < l /\ TiesUnder(filteredData[k], filteredData[l], sortBy) ) =>
                        p[k] < p[l]

\* under a filter that is active, two different records that tie are in the
\* output, and so are two records that the sort has exchanged
C11_Witness ==
    /\ Applied
    /\ searchQuery # << >>
    /\ Len(filteredData) >= 2
    /\ \/ /\ filteredData[1] # filteredData[2]
          /\ TiesUnder(filteredData[1], filteredData[2], sortBy)
          /\ FieldOf(sortBy) = "name"
       \/ /\ filteredData # PassingRecords
          /\ FieldOf(sortBy) = "amount"

-----------------------------------------------------------------------------
(* Buckets of the two aggregations                                         *)

\* the number of records of data with the given vendor and agency labels
PairCount(data, vendor, agency) ==
    LET IsPair(r) == VendorOf(r) = vendor /\ AgencyOf(r) = agency
    IN  Len(SelectSeq(data, IsPair))

\* C12 (as claimed): two records are accumulated into the same bucket exactly
\* when their vendor and agency labels are the same: the records of one link all
\* have one (vendor, agency) pair, no two links have the same pair, and every
\* matrix cell counts exactly the records of its own pair.
C12_BucketPerPair ==
    /\ sankeyData.called =>
          /\ \A k \in 1..Len(sankeyData.links) :
                \A r \in Range(sankeyData.links[k].contracts) :
                    /\ VendorOf(r) = sankeyData.links[k].vendor
                    /\ AgencyOf(r) = sankeyData.links[k].agency
          /\ \A k, l \in 1..Len(sankeyData.links) :
                ( sankeyData.links[k].vendor = sankeyData.links[l].vendor
                  /\ sankeyData.links[k].agency = sankeyData.links[l].agency ) => k = l
    /\ matrixData.called =>
          \A i \in 1..Len(matrixData.vendors) :
              \A j \in 1..Len(matrixData.agencies) :
                  matrixData.matrix[i][j].count =
                      PairCount(filteredData, matrixData.vendors[i], matrixData.agencies[j])

\* the sum of the amounts of the records of data with the given labels
PairAmount(data, vendor, agency) ==
    LET IsPair(r) == VendorOf(r) = vendor /\ AgencyOf(r) = agency
    IN  SumSeq(AmountsOf(SelectSeq(data, IsPair)))

ColumnAmounts(matrix, j) == [ i \in 1..Len(matrix) |-> matrix[i][j].amount ]

\* C13 (as claimed): aggregateForMatrix returns a dense grid: one row per vendor
\* and one column per agency, matrix[i][j] holds the summed amount and the count
\* of the records of the pair (vendors[i], agencies[j]), which is {0, 0} when
\* there are none, vendorTotals[i] is the sum of the amounts of row i and
\* agencyTotals[j] the sum of the amounts of column j.
C13_DenseGrid ==
    matrixData.called =>
        /\ Len(matrixData.matrix) = Len(matrixData.vendors)
        /\ Len(matrixData.vendorTotals) = Len(matrixData.vendors)
        /\ Len(matrixData.agencyTotals) = Len(matrixData.agencies)
        /\ \A i \in 1..Len(matrixData.vendors) :
              /\ Len(matrixData.matrix[i]) = Len(matrixData.agencies)
              /\ matrixData.vendorTotals[i] = SumSeq(RowAmounts(matrixData.matrix[i]))
              /\ \A j \in 1..Len(matrixData.agencies) :
                    /\ matrixData.matrix[i][j].amount =
                          PairAmount(filteredData, matrixData.vendors[i],
                                     matrixData.agencies[j])
                    /\ matrixData.matrix[i][j].count =
                          PairCount(filteredData, matrixData.vendors[i],
                                    matrixData.agencies[j])
        /\ \A j \in 1..Len(matrixData.agencies) :
              matrixData.agencyTotals[j] = SumSeq(ColumnAmounts(matrixData.matrix, j))

-----------------------------------------------------------------------------
(* Nodes and names of the aggregations                                     *)

VendorLabels(data) == { VendorOf(data[k]) : k \in 1..Len(data) }
AgencyLabels(data) == { AgencyOf(data[k]) : k \in 1..Len(data) }

\* C14: the number of vendor nodes aggregateForSankey returns is the number of
\* distinct vendor labels of the records (an absent name is the label 'Unknown
\* Vendor'), and the number of agency nodes is the number of distinct agency labels.
C14_NodePerName ==
    sankeyData.called =>
        /\ Len(VendorNodes(sankeyData.nodes)) = Cardinality(VendorLabels(filteredData))
        /\ Len(AgencyNodes(sankeyData.nodes)) = Cardinality(AgencyLabels(filteredData))

\* the aggregation was applied to records in which a vendor and an agency appear
\* more than once, one vendor name is absent and there are several labels
C14_Witness ==
    /\ sankeyData.called
    /\ Cardinality(VendorLabels(filteredData)) = 2
    /\ Cardinality(AgencyLabels(filteredData)) = 2
    /\ Len(filteredData) = 3
    /\ UnknownVendor \in VendorLabels(filteredData)

\* consecutive names compare below 0 (strict) or not above 0
NamesIncrease(names, strict) ==
    \A k \in 1..(Len(names) - 1) :
        IF strict THEN localeCompare(names[k], names[k + 1]) < 0
        ELSE localeCompare(names[k], names[k + 1]) <= 0
NoNameTwice(names) == \A k, l \in 1..Len(names) : names[k] = names[l] => k = l

\* C15 (as claimed): with the 'name-asc' sort key the vendor order returned by
\* both aggregations is strictly increasing under the name comparison
\* (localeCompare), and no name appears twice.
C15_StrictlyIncreasing ==
    sortBy = "name-asc" =>
        /\ sankeyData.called =>
              /\ NamesIncrease(NamesOf(VendorNodes(sankeyData.nodes)), TRUE)
              /\ NoNameTwice(NamesOf(VendorNodes(sankeyData.nodes)))
        /\ matrixData.called =>
              /\ NamesIncrease(matrixData.vendors, TRUE)
              /\ NoNameTwice(matrixData.vendors)

\* C15 (amended): with the 'name-asc' sort key the vendor order returned by both
\* aggregations never decreases under the name comparison and no name string
\* appears twice; two different names that compare equal (canonically equivalent
\* strings) are both present.
C15_NeverDecreasing ==
    sortBy = "name-asc" =>
        /\ sankeyData.called =>
              /\ NamesIncrease(NamesOf(VendorNodes(sankeyData.nodes)), FALSE)
              /\ NoNameTwice(NamesOf(VendorNodes(sankeyData.nodes)))
        /\ matrixData.called =>
              /\ NamesIncrease(matrixData.vendors, FALSE)
              /\ NoNameTwice(matrixData.vendors)

\* both aggregations ordered three vendor names by name, two of them compare
\* equal, and the order is not the order of first appearance
C15_Witness ==
    /\ BothCalled
    /\ sortBy = "name-asc"
    /\ Len(matrixData.vendors) = 3
    /\ \E k \in 1..2 : localeCompare(matrixData.vendors[k], matrixData.vendors[k + 1]) = 0
    /\ matrixData.vendors[1] # VendorOf(filteredData[1])
    /\ NamesOf(VendorNodes(sankeyData.nodes)) = matrixData.vendors

-----------------------------------------------------------------------------
(* SpecRepeat: the aggregations called again and again, statement by      *)
(* statement                                                               *)

\* calls of the aggregations made in one behaviour
MaxRepeatCalls == 4

\* two pairs that share a vendor, two that share an agency, amounts that tie,
\* and a record without names or amount
RepeatRecords ==
    { Rec(<< "A", "b" >>, << "X" >>, 2, << >>, << >>),
      Rec(<< "A", "b" >>, << "Y" >>, 1, << >>, << >>),
      Rec(<< "b" >>, << "X" >>, 1, << >>, << >>),
      [ vendor_name |-> << >>, agency_name |-> << >>, short_title |-> << >>,
        additional_info |-> << >> ] }
RepeatData == [ 1..2 -> RepeatRecords ] \cup [ 1..3 -> RepeatRecords \ { Rec(<< "b" >>, << "X" >>, 1, << >>, << >>) } ]

InitRepeat ==
    /\ filteredData \in RepeatData
    /\ rawData = filteredData
    /\ sortBy = "amount-desc"
    /\ activeTab = "sankey"
    /\ searchQuery = << >>
    /\ selectedVendors = << >>
    /\ selectedAgencies = << >>
    /\ stats = NoStats
    /\ sankeyData = NoSankey
    /\ matrixData = NoMatrix
    /\ sankeyChart = NoSankeyChart
    /\ matrixChart = NoMatrixChart
    /\ loading = FALSE
    /\ calls = << >>
    /\ timers = NoTimers
    /\ timeout = NoTimeout
    /\ burst = NoBurst
    /\ frame = NoFrame

\* API.aggregateForSankey(filteredData, sortSpec) is entered: the function is
\* synchronous, so no other call is running; its three Maps are created
SankeyCallBegins(sortSpec) ==
    /\ frame.fn = "none"
    /\ Len(frame.log) < MaxRepeatCalls
    /\ frame' = [ frame EXCEPT !.fn = "sankey", !.sortBy = sortSpec, !.i = 0,
                               !.maps = NewSankeyMaps ]
    /\ UNCHANGED << rawData, filteredData, activeTab, searchQuery, selectedVendors,
                    selectedAgencies, sortBy, stats, sankeyData, matrixData,
                    sankeyChart, matrixChart, loading, calls, timers, timeout, burst >>

\* API.aggregateForMatrix(filteredData, sortSpec) is entered: its five Maps are
\* created
MatrixCallBegins(sortSpec) ==
    /\ frame.fn = "none"
    /\ Len(frame.log) < MaxRepeatCalls
    /\ frame' = [ frame EXCEPT !.fn = "matrix", !.sortBy = sortSpec, !.i = 0,
                               !.maps = NewMatrixMaps ]
    /\ UNCHANGED << rawData, filteredData, activeTab, searchQuery, selectedVendors,
                    selectedAgencies, sortBy, stats, sankeyData, matrixData,
                    sankeyChart, matrixChart, loading, calls, timers, timeout, burst >>

\* one turn of the first data.forEach of aggregateForSankey
SankeyForEachTurn ==
    /\ frame.fn = "sankey"
    /\ frame.i < Len(filteredData)
    /\ frame' = [ frame EXCEPT !.i = @ + 1,
                               !.maps = SankeyAccumulate(@, filteredData[frame.i + 1]) ]
    /\ UNCHANGED << rawData, filteredData, activeTab, searchQuery, selectedVendors,
                    selectedAgencies, sortBy, stats, sankeyData, matrixData,
                    sankeyChart, matrixChart, loading, calls, timers, timeout, burst >>

\* one turn of the data.forEach of aggregateForMatrix
MatrixForEachTurn ==
    /\ frame.fn = "matrix"
    /\ frame.i < Len(filteredData)
    /\ frame' = [ frame EXCEPT !.i = @ + 1,
                               !.maps = MatrixAccumulate(@, filteredData[frame.i + 1]) ]
    /\ UNCHANGED << rawData, filteredData, activeTab, searchQuery, selectedVendors,
                    selectedAgencies, sortBy, stats, sankeyData, matrixData,
                    sankeyChart, matrixChart, loading, calls, timers, timeout, burst >>

\* aggregateForSankey orders the names, builds nodes and links from its Maps and
\* returns
SankeyCallReturns ==
    /\ frame.fn = "sankey"
    /\ frame.i = Len(filteredData)
    /\ sankeyData' = WithCalled(SankeyResult(frame.maps, filteredData, frame.sortBy))
    /\ frame' = [ frame EXCEPT !.fn = "none",
                               !.log = Append(@, << "sankey", frame.sortBy >>),
                               !.sankey[frame.sortBy] = sankeyData' ]
    /\ UNCHANGED << rawData, filteredData, activeTab, searchQuery, selectedVendors,
                    selectedAgencies, sortBy, stats, matrixData, sankeyChart,
                    matrixChart, loading, calls, timers, timeout, burst >>

\* aggregateForMatrix orders the names, builds the matrix and the totals from its
\* Maps and returns
MatrixCallReturns ==
    /\ frame.fn = "matrix"
    /\ frame.i = Len(filteredData)
    /\ matrixData' = WithCalled(MatrixResult(frame.maps, frame.sortBy))
    /\ frame' = [ frame EXCEPT !.fn = "none",
                               !.log = Append(@, << "matrix", frame.sortBy >>),
                               !.matrix[frame.sortBy] = matrixData' ]
    /\ UNCHANGED << rawData, filteredData, activeTab, searchQuery, selectedVendors,
                    selectedAgencies, sortBy, stats, sankeyData, sankeyChart,
                    matrixChart, loading, calls, timers, timeout, burst >>

NextRepeat ==
    \/ \E sortSpec \in RepeatSorts : SankeyCallBegins(sortSpec)
    \/ \E sortSpec \in RepeatSorts : MatrixCallBegins(sortSpec)
    \/ SankeyForEachTurn
    \/ MatrixForEachTurn
    \/ SankeyCallReturns
    \/ MatrixCallReturns

SpecRepeat == InitRepeat /\ [][NextRepeat]_vars

\* C16: a call of aggregateForSankey, or of aggregateForMatrix, on the same
\* filtered records and with a sort key it was called with before returns a
\* value identical to the one it returned then (same nodes or names in the same
\* order, same links or cells, same totals), whatever calls of either
\* aggregation, with whatever sort key, were made in between; and no step of a
\* call changes the records.
C16_RepeatedCallReturnsTheSame ==
    [][ /\ ( /\ frame.fn = "sankey"
             /\ frame'.fn = "none"
             /\ frame.sankey[frame.sortBy].called )
            => sankeyData' = frame.sankey[frame.sortBy]
        /\ ( /\ frame.fn = "matrix"
             /\ frame'.fn = "none"
             /\ frame.matrix[frame.sortBy].called )
            => matrixData' = frame.matrix[frame.sortBy]
        /\ filteredData' = filteredData ]_vars

\* each aggregation has returned twice for one sort key, with a call of the other
\* aggregation and another sort key in between, on records that make several
\* nodes, links and cells
C16_Witness ==
    /\ frame.fn = "none"
    /\ frame.log = << << "sankey", "count-asc" >>, << "matrix", "amount-desc" >>,
                      << "sankey", "count-asc" >>, << "matrix", "amount-desc" >> >>
    /\ Len(filteredData) = 3
    /\ Len(sankeyData.links) >= 2
    /\ Len(sankeyData.nodes) >= 4
    /\ Len(matrixData.vendors) >= 2
    /\ Len(matrixData.agencies) >= 2
    /\ sankeyData = frame.sankey["count-asc"]
    /\ matrixData = frame.matrix["amount-desc"]

-----------------------------------------------------------------------------
(* Records without a vendor name, an agency name or an amount              *)

LacksVendor(r) == r.vendor_name = << >>
LacksAgency(r) == r.agency_name = << >>
LacksAmount(r) == "contract_amount" \notin DOMAIN r

IsUnknownVendor(x) == x.vendor = UnknownVendor
IsUnknownAgency(x) == x.agency = UnknownAgency
CountsOf(links) == [ i \in 1..Len(links) |-> links[i].count ]
RowCounts(row) == [ j \in 1..Len(row) |-> row[j].count ]
ColumnCounts(matrix, j) == [ i \in 1..Len(matrix) |-> matrix[i][j].count ]

\* the records of data under the label 'Unknown Vendor' / 'Unknown Agency'
UnderUnknownVendor(data) ==
    LET Is(r) == VendorOf(r) = UnknownVendor
    IN  SelectSeq(data, Is)
UnderUnknownAgency(data) ==
    LET Is(r) == AgencyOf(r) = UnknownAgency
    IN  SelectSeq(data, Is)

\* C17: records with no vendor_name are under the label 'Unknown Vendor' and
\* records with no agency_name under 'Unknown Agency': in the graph and in the
\* matrix the label is present, its total is the sum of the amounts of these
\* records (an absent amount counting as 0) and its count is their number.
C17_UnknownBuckets ==
    LET noVendor == UnderUnknownVendor(filteredData)
        noAgency == UnderUnknownAgency(filteredData)
    IN  /\ ( sankeyData.called /\ \E k \in 1..Len(filteredData) : LacksVendor(filteredData[k]) ) =>
              /\ \E n \in Range(VendorNodes(sankeyData.nodes)) :
                    n.name = UnknownVendor /\ n.total = SumSeq(AmountsOf(noVendor))
              /\ SumSeq(CountsOf(SelectSeq(sankeyData.links, IsUnknownVendor))) = Len(noVendor)
        /\ ( sankeyData.called /\ \E k \in 1..Len(filteredData) : LacksAgency(filteredData[k]) ) =>
              /\ \E n \in Range(AgencyNodes(sankeyData.nodes)) :
                    n.name = UnknownAgency /\ n.total = SumSeq(AmountsOf(noAgency))
              /\ SumSeq(CountsOf(SelectSeq(sankeyData.links, IsUnknownAgency))) = Len(noAgency)
        /\ ( matrixData.called /\ \E k \in 1..Len(filteredData) : LacksVendor(filteredData[k]) ) =>
              \E i \in 1..Len(matrixData.vendors) :
                  /\ matrixData.vendors[i] = UnknownVendor
                  /\ matrixData.vendorTotals[i] = SumSeq(AmountsOf(noVendor))
                  /\ SumSeq(RowCounts(matrixData.matrix[i])) = Len(noVendor)
        /\ ( matrixData.called /\ \E k \in 1..Len(filteredData) : LacksAgency(filteredData[k]) ) =>
              \E j \in 1..Len(matrixData.agencies) :
                  /\ matrixData.agencies[j] = UnknownAgency
                  /\ matrixData.agencyTotals[j] = SumSeq(AmountsOf(noAgency))
                  /\ SumSeq(ColumnCounts(matrixData.matrix, j)) = Len(noAgency)

\* both aggregations have returned for records of which one lacks the vendor
\* name, one the agency name and one the amount, next to a named record
C17_Witness ==
    /\ BothCalled
    /\ \E k \in 1..Len(filteredData) : LacksVendor(filteredData[k]) /\ ~LacksAgency(filteredData[k])
    /\ \E k \in 1..Len(filteredData) : LacksAgency(filteredData[k]) /\ ~LacksVendor(filteredData[k])
    /\ \E k \in 1..Len(filteredData) : LacksAmount(filteredData[k])
    /\ Len(UnderUnknownVendor(filteredData)) >= 2

-----------------------------------------------------------------------------
(* The page requests of API.fetchAll                                       *)

IsNotZero(n) == n # 0

\* C18: every API.fetchAll call requests page k (k = 0, 1, ...) at offset
\* k * 10,000 with limit 10,000, one page at a time; it requests no page after a
\* page of fewer than 10,000 rows; and when it returns (no request having
\* failed) it returns the pages received, concatenated in request order, every
\* row once.
C18_PagesInOrder ==
    \A c \in 1..Len(calls) :
        LET call == calls[c]
        IN  /\ \A k \in 1..Len(call.requests) :
                  call.requests[k] = [ offset |-> (k - 1) * 10000, limit |-> 10000 ]
            /\ Len(call.received) <= Len(call.requests)
            /\ Len(call.requests) <= Len(call.received) + 1
            /\ \A k \in 1..(Len(call.requests) - 1) : call.received[k] = 10000
            /\ call.status = "returned" =>
                  /\ Len(call.received) = Len(call.requests)
                  /\ call.result = SelectSeq(call.received, IsNotZero)

\* a call has returned after two full pages and a shorter one
C18_Witness ==
    \E c \in 1..Len(calls) :
        /\ calls[c].status = "returned"
        /\ Len(calls[c].requests) = 3
        /\ calls[c].received[3] \in 1..(PAGE_SIZE - 1)
        /\ SumSeq(calls[c].result) > 2 * PAGE_SIZE

-----------------------------------------------------------------------------
(* SpecClick: the filter selects and the cells of the matrix view          *)
(* (Filters.bindDropdowns, MatrixChart.bindCellEvents)                     *)

\* Array.prototype.sort without a comparator orders strings by code unit
CodeUnitOrder ==
    << " ", "\"" >> \o Digits \o << ":" >> \o UpperLetters \o LowerLetters
    \o << "|", EAcute, CombiningAcute >>
CodeUnits(s) == [ i \in 1..Len(s) |-> IndexIn(CodeUnitOrder, s[i]) ]
InsertByCodeUnits(sorted, n) ==
    LET Greater(x) == LexCompare(CodeUnits(x), CodeUnits(n)) > 0
    IN  InsertBefore(sorted, Positions(sorted, Greater), n)

\* [...new Set(names.filter(Boolean))].sort()
UniqueSorted(names) ==
    LET AddNew(acc, n) == IF n = << >> \/ ListIncludes(acc, n) THEN acc ELSE Append(acc, n)
        unique == ForEach(AddNew, << >>, names, 1, Len(names))
    IN  ForEach(InsertByCodeUnits, << >>, unique, 1, Len(unique))

\* API.getFilterOptions: the options Filters.populateDropdowns writes
getFilterOptions(data) ==
    [ vendors |-> UniqueSorted([ i \in 1..Len(data) |-> data[i].vendor_name ]),
      agencies |-> UniqueSorted([ i \in 1..Len(data) |-> data[i].agency_name ]) ]

\* Array.from(select.selectedOptions).map(opt => opt.value): the options the user
\* has selected, in the order of the select
SelectedOptions(options, chosen) ==
    LET IsChosen(o) == o \in chosen
    IN  SelectSeq(options, IsChosen)

IsQuote(c) == c = "\""

\* the value read from cell.dataset of an attribute written as
\* data-vendor="${Utils.escapeHtml(name)}": escapeHtml (div.innerHTML) escapes
\* &, < and > but leaves the double quote, so the attribute value ends where the
\* name has its first double quote
DatasetValue(name) ==
    LET quotes == Positions(name, IsQuote)
    IN  IF quotes = << >> THEN name ELSE SubSeq(name, 1, Head(quotes) - 1)

\* longest record list drawn in SpecClick
MaxClickLen == 2

ClickRecords ==
    { Rec(<< "A", "b" >>, << "X" >>, 2, << >>, << >>),
      Rec(<< "A", "b" >>, << "Y" >>, 1, << >>, << >>),
      Rec(<< "b" >>, << "X" >>, 1, << >>, << >>),
      Rec(<< "b" >>, << >>, 1, << >>, << >>),
      Rec(<< "A", "\"", "b" >>, << "X" >>, 3, << >>, << >>) }

\* the fetched records are rendered in the active tab, no filter set; when the
\* matrix tab is the active one the graph pane is as SankeyChart.init() left it
InitClick ==
    /\ rawData \in SeqsUpTo(ClickRecords, MaxClickLen)
    /\ sortBy = "amount-desc"
    /\ activeTab \in { "sankey", "matrix" }
    /\ searchQuery = << >>
    /\ selectedVendors = << >>
    /\ selectedAgencies = << >>
    /\ filteredData = applyFilters(rawData, << >>, << >>, << >>, sortBy)
    /\ stats = StatsOf(filteredData)
    /\ sankeyData = IF activeTab = "matrix" \/ Len(filteredData) = 0 THEN NoSankey
                    ELSE WithCalled(aggregateForSankey(filteredData, sortBy))
    /\ sankeyChart = IF activeTab = "matrix" THEN FirstPane
                     ELSE SankeyRender(filteredData, sankeyData, FirstPane)
    /\ matrixData = IF activeTab = "sankey" \/ Len(filteredData) = 0 THEN NoMatrix
                    ELSE WithCalled(aggregateForMatrix(filteredData, sortBy))
    /\ matrixChart = IF activeTab = "sankey" THEN NoMatrixChart
                     ELSE MatrixRender(filteredData, matrixData)
    /\ loading = FALSE
    /\ calls = << >>
    /\ timers = NoTimers
    /\ timeout = NoTimeout
    /\ burst = NoBurst
    /\ frame = NoFrame

\* the change handler of the vendor select: the state is set, nothing is rendered
VendorSelectChange(chosen) ==
    /\ selectedVendors' = SelectedOptions(getFilterOptions(rawData).vendors, chosen)
    /\ UNCHANGED << rawData, filteredData, activeTab, searchQuery, selectedAgencies,
                    sortBy, stats, sankeyData, matrixData, sankeyChart, matrixChart,
                    loading, calls >>
    /\ UNCHANGED << timers, timeout, burst, frame >>

\* the change handler of the agency select
AgencySelectChange(chosen) ==
    /\ selectedAgencies' = SelectedOptions(getFilterOptions(rawData).agencies, chosen)
    /\ UNCHANGED << rawData, filteredData, activeTab, searchQuery, selectedVendors,
                    sortBy, stats, sankeyData, matrixData, sankeyChart, matrixChart,
                    loading, calls >>
    /\ UNCHANGED << timers, timeout, burst, frame >>

\* if (!list.includes(value)) list.push(value)
PushIfAbsent(list, value) == IF ListIncludes(list, value) THEN list ELSE Append(list, value)

\* the click handler of the cell in row i, column j of the table drawn
MatrixCellClick(i, j) ==
    /\ matrixChart.state = "drawn"
    /\ i \in 1..Len(matrixChart.vendorOrder)
    /\ j \in 1..Len(matrixChart.agencyOrder)
    /\ LET vendor == DatasetValue(matrixChart.vendorOrder[i].name)
           agency == DatasetValue(matrixChart.agencyOrder[j].name)
           amount == matrixChart.cells[i][j].amount
       IN  IF amount > 0
           THEN /\ selectedVendors' = PushIfAbsent(selectedVendors, vendor)
                /\ selectedAgencies' = PushIfAbsent(selectedAgencies, agency)
                /\ ApplyClientFilters(rawData, searchQuery, selectedVendors',
                                      selectedAgencies', sortBy, activeTab, sankeyChart)
                /\ UNCHANGED << rawData, activeTab, searchQuery, sortBy, loading, calls >>
           ELSE UNCHANGED vars
    /\ UNCHANGED << timers, timeout, burst, frame >>

\* SankeyChart.handleNodeClick(d), d being the i-th node drawn
SankeyNodeClick(i) ==
    /\ sankeyChart.state = "drawn"
    /\ i \in 1..Len(sankeyChart.nodes)
    /\ LET d == sankeyChart.nodes[i]
       IN  IF d.type = "vendor"
           THEN IF ~ListIncludes(selectedVendors, d.name)
                THEN /\ selectedVendors' = Append(selectedVendors, d.name)
                     /\ ApplyClientFilters(rawData, searchQuery, selectedVendors',
                                           selectedAgencies, sortBy, activeTab, sankeyChart)
                     /\ UNCHANGED << rawData, activeTab, searchQuery, selectedAgencies,
                                     sortBy, loading, calls >>
                ELSE UNCHANGED vars
           ELSE IF ~ListIncludes(selectedAgencies, d.name)
                THEN /\ selectedAgencies' = Append(selectedAgencies, d.name)
                     /\ ApplyClientFilters(rawData, searchQuery, selectedVendors,
                                           selectedAgencies', sortBy, activeTab, sankeyChart)
                     /\ UNCHANGED << rawData, activeTab, searchQuery, selectedVendors,
                                     sortBy, loading, calls >>
                ELSE UNCHANGED vars
    /\ UNCHANGED << timers, timeout, burst, frame >>

\* list.filter(v => v !== value)
Without(list, value) ==
    LET Other(v) == v # value
    IN  SelectSeq(list, Other)

\* a click on the remove mark of the k-th tag of the vendor list: the handler
\* bound by Filters.updateTags reads data-value and calls Filters.removeTag
RemoveVendorTag(k) ==
    /\ k \in 1..Len(selectedVendors)
    /\ selectedVendors' = Without(selectedVendors, DatasetValue(selectedVendors[k]))
    /\ UNCHANGED << rawData, filteredData, activeTab, searchQuery, selectedAgencies,
                    sortBy, stats, sankeyData, matrixData, sankeyChart, matrixChart,
                    loading, calls >>
    /\ UNCHANGED << timers, timeout, burst, frame >>

\* the same for the k-th tag of the agency list
RemoveAgencyTag(k) ==
    /\ k \in 1..Len(selectedAgencies)
    /\ selectedAgencies' = Without(selectedAgencies, DatasetValue(selectedAgencies[k]))
    /\ UNCHANGED << rawData, filteredData, activeTab, searchQuery, selectedVendors,
                    sortBy, stats, sankeyData, matrixData, sankeyChart, matrixChart,
                    loading, calls >>
    /\ UNCHANGED << timers, timeout, burst, frame >>

\* the matrix view: the selects, the tags and the cells
NextClick ==
    \/ \E chosen \in SUBSET Range(getFilterOptions(rawData).vendors) :
          VendorSelectChange(chosen)
    \/ \E chosen \in SUBSET Range(getFilterOptions(rawData).agencies) :
          AgencySelectChange(chosen)
    \/ \E i \in 1..Len(matrixChart.vendorOrder) :
          \E j \in 1..Len(matrixChart.agencyOrder) : MatrixCellClick(i, j)
    \/ \E k \in 1..Len(selectedVendors) : RemoveVendorTag(k)
    \/ \E k \in 1..Len(selectedAgencies) : RemoveAgencyTag(k)

InitMatrixView == InitClick /\ activeTab = "matrix"

SpecClick == InitMatrixView /\ [][NextClick]_vars

\* the graph view: the selects, the tags and the nodes
NextNode ==
    \/ \E chosen \in SUBSET Range(getFilterOptions(rawData).vendors) :
          VendorSelectChange(chosen)
    \/ \E chosen \in SUBSET Range(getFilterOptions(rawData).agencies) :
          AgencySelectChange(chosen)
    \/ \E i \in 1..Len(sankeyChart.nodes) : SankeyNodeClick(i)
    \/ \E k \in 1..Len(selectedVendors) : RemoveVendorTag(k)
    \/ \E k \in 1..Len(selectedAgencies) : RemoveAgencyTag(k)

InitGraphView == InitClick /\ activeTab = "sankey"

SpecNode == InitGraphView /\ [][NextNode]_vars

\* C19 (as claimed): a click on a matrix cell with a positive amount filters by
\* the cell's vendor-agency pair: after the click every record of
\* App.filteredData has the cell's vendor and the cell's agency, whatever was
\* selected before; a click on a cell whose amount is 0 changes nothing.
C19_ClickFiltersByPair ==
    [][ \A i \in 1..Len(matrixChart.vendorOrder) :
          \A j \in 1..Len(matrixChart.agencyOrder) :
            MatrixCellClick(i, j) =>
                IF matrixChart.cells[i][j].amount > 0
                THEN \A k \in 1..Len(filteredData') :
                        /\ VendorOf(filteredData'[k]) = matrixChart.vendorOrder[i].name
                        /\ AgencyOf(filteredData'[k]) = matrixChart.agencyOrder[j].name
                ELSE UNCHANGED vars ]_vars

-----------------------------------------------------------------------------
(* The empty filtered set                                                  *)

\* the two aggregations of an empty filtered set, under the current sort
EmptyProjections ==
    /\ aggregateForSankey(filteredData, sortBy) = [ nodes |-> << >>, links |-> << >> ]
    /\ aggregateForMatrix(filteredData, sortBy) =
          [ vendors |-> << >>, agencies |-> << >>, matrix |-> << >>,
            vendorTotals |-> << >>, agencyTotals |-> << >> ]

\* C20: an empty filtered set is not an error: aggregateForSankey returns empty
\* nodes and links, aggregateForMatrix returns empty vendors, agencies, matrix and
\* totals, and the active view shows its empty state.
C20_EmptyIsNotAnError ==
    filteredData = << >> =>
        /\ EmptyProjections
        /\ activeTab = "sankey" => sankeyChart.state = "empty"
        /\ activeTab = "matrix" => matrixChart.state = "empty"

\* what the code does keep to: the aggregations of an empty filtered set are
\* empty, the matrix view shows its empty state, and the graph view shows its
\* empty state until a resize listener has redrawn SankeyChart.lastData
C20_EmptyUntilResized ==
    filteredData = << >> =>
        /\ EmptyProjections
        /\ activeTab = "matrix" => matrixChart.state = "empty"
        /\ activeTab = "sankey" =>
              \/ sankeyChart.state = "empty"
              \/ sankeyChart.state = "drawn" /\ sankeyChart.listeners > FirstPane.listeners

-----------------------------------------------------------------------------
(* Node totals against link values                                         *)

\* the sum of the values of the links of one vendor / one agency
VendorLinkSum(links, name) ==
    SumSeq([ k \in 1..Len(links) |-> IF links[k].vendor = name THEN links[k].value ELSE 0 ])
AgencyLinkSum(links, name) ==
    SumSeq([ k \in 1..Len(links) |-> IF links[k].agency = name THEN links[k].value ELSE 0 ])

\* C21 (as claimed): for every vendor node returned by aggregateForSankey, total
\* is the sum of value over the links of that vendor, and for every agency node
\* total is the sum of value over the links of that agency.
C21_TotalsAreLinkSums ==
    sankeyData.called =>
        \A n \in Range(sankeyData.nodes) :
            IF n.type = "vendor"
            THEN n.total = VendorLinkSum(sankeyData.links, n.name)
            ELSE n.total = AgencyLinkSum(sankeyData.links, n.name)

-----------------------------------------------------------------------------
(* Order of the nodes and ends of the links                                *)

VendorsFirst(nodes) ==
    \A i, j \in 1..Len(nodes) : ( nodes[i].type = "vendor" /\ nodes[j].type = "agency" ) => i < j

\* the number of records of data under a vendor / agency label
VendorRecordCount(data, name) == Cardinality({ k \in 1..Len(data) : VendorOf(data[k]) = name })
AgencyRecordCount(data, name) == Cardinality({ k \in 1..Len(data) : AgencyOf(data[k]) = name })

\* the nodes of one group follow the ranking the sort specification asks for:
\* by total, by number of records or by name, descending or ascending
RankedAs(group, counts, sortSpec) ==
    \A k \in 1..(Len(group) - 1) :
        CASE FieldOf(sortSpec) = "amount" ->
               MultiplierOf(sortSpec) * (group[k].total - group[k + 1].total) <= 0
          [] FieldOf(sortSpec) = "count" ->
               MultiplierOf(sortSpec) * (counts[k] - counts[k + 1]) <= 0
          [] OTHER ->
               MultiplierOf(sortSpec) * localeCompare(group[k].name, group[k + 1].name) <= 0

\* every link starts at the vendor node named link.vendor and ends at the agency
\* node named link.agency (source and target are 0-based)
LinkEndsMatch(nodes, links) ==
    \A k \in 1..Len(links) :
        /\ links[k].source \in 0..(Len(nodes) - 1)
        /\ links[k].target \in 0..(Len(nodes) - 1)
        /\ nodes[links[k].source + 1].type = "vendor"
        /\ nodes[links[k].source + 1].name = links[k].vendor
        /\ nodes[links[k].target + 1].type = "agency"
        /\ nodes[links[k].target + 1].name = links[k].agency

\* C22: in the output of aggregateForSankey all vendor nodes precede all agency
\* nodes, each group in the order of the active ranking, and every link's source
\* is the index of the vendor node named link.vendor and its target the index of
\* the agency node named link.agency; the nodes and links SankeyChart.render
\* re-indexes after windowing keep the vendors-first order and the correspondence.
C22_NodesAndLinkEnds ==
    ( activeTab = "sankey" /\ sankeyData.called ) =>
        LET vendors == VendorNodes(sankeyData.nodes)
            agencies == AgencyNodes(sankeyData.nodes)
        IN  /\ VendorsFirst(sankeyData.nodes)
            /\ RankedAs(vendors,
                        [ k \in 1..Len(vendors) |-> VendorRecordCount(filteredData, vendors[k].name) ],
                        sortBy)
            /\ RankedAs(agencies,
                        [ k \in 1..Len(agencies) |-> AgencyRecordCount(filteredData, agencies[k].name) ],
                        sortBy)
            /\ LinkEndsMatch(sankeyData.nodes, sankeyData.links)
            /\ sankeyChart.state = "drawn" =>
                  /\ VendorsFirst(sankeyChart.nodes)
                  /\ LinkEndsMatch(sankeyChart.nodes, sankeyChart.links)
                  /\ \A i \in 1..Len(sankeyChart.nodes) : sankeyChart.nodes[i].index = i - 1

\* the graph is drawn under a count sort with nodes left out by the window, so
\* that the indices of the links drawn differ from those of the aggregation
C22_Witness ==
    /\ activeTab = "sankey"
    /\ sankeyData.called
    /\ sankeyChart.state = "drawn"
    /\ sortBy = "count-asc"
    /\ Len(sankeyChart.nodes) < Len(sankeyData.nodes)
    /\ \E k \in 1..Len(sankeyChart.links) :
          \E l \in 1..Len(sankeyData.links) :
              /\ sankeyChart.links[k].vendor = sankeyData.links[l].vendor
              /\ sankeyChart.links[k].agency = sankeyData.links[l].agency
              /\ sankeyChart.links[k].target # sankeyData.links[l].target

-----------------------------------------------------------------------------
(* The count sorts of Filters.sortData                                     *)

\* the amount sort of the same direction
AmountSortLike(sortSpec) == IF DirectionOf(sortSpec) = "desc" THEN "amount-desc" ELSE "amount-asc"

\* C23: for the sort field 'count' Filters.sortData orders the records exactly
\* as for the field 'amount' with the same direction: the list applyFilters
\* produced under 'count-desc' ('count-asc') is the list sortData gives for the
\* same records under 'amount-desc' ('amount-asc').
C23_CountSortsByAmount ==
    ( Applied /\ FieldOf(sortBy) = "count" ) =>
        filteredData = sortData(PassingRecords, AmountSortLike(sortBy))

\* under a count sort the filter produced two records that the sort exchanged
C23_Witness ==
    /\ Applied
    /\ FieldOf(sortBy) = "count"
    /\ Len(filteredData) >= 2
    /\ filteredData # PassingRecords
    /\ AmountOf(filteredData[1]) # AmountOf(filteredData[2])


\* ---------------------------------------------------------------------------
\* A click on a node of the graph view
\* ---------------------------------------------------------------------------

\* the record was aggregated under the node d
ContributedTo(d, record) ==
    IF d.type = "vendor" THEN VendorOf(record) = d.name
    ELSE AgencyOf(record) = d.name

\* the records shown before the step that were aggregated under the node d are
\* all shown after it, and something is shown
KeepsContributors(d) ==
    /\ \A k \in 1..Len(filteredData) :
           ContributedTo(d, filteredData[k]) =>
               \E n \in 1..Len(filteredData') : filteredData'[n] = filteredData[k]
    /\ Len(filteredData') > 0

\* C24: after a click on a node drawn in the graph view, every record that
\* contributed to the node's total is still in App.filteredData, which is
\* therefore not empty
C24_ClickKeepsContributors ==
    [][ \A i \in 1..Len(sankeyChart.nodes) :
            SankeyNodeClick(i) => KeepsContributors(sankeyChart.nodes[i]) ]_vars

\* the same, for clicks on nodes other than the two placeholder nodes, made
\* while the selections are those the view was last filtered by
C24_NamedNodeClick ==
    [][ \A i \in 1..Len(sankeyChart.nodes) :
            ( /\ SankeyNodeClick(i)
              /\ sankeyChart.nodes[i].name \notin { UnknownVendor, UnknownAgency }
              /\ filteredData = applyFilters(rawData, searchQuery, selectedVendors,
                                             selectedAgencies, sortBy) )
            => KeepsContributors(sankeyChart.nodes[i]) ]_vars


\* ---------------------------------------------------------------------------
\* The records shown and the filter state
\* ---------------------------------------------------------------------------

\* no API.fetchAll call is awaiting a page
NoFetchInFlight == \A c \in 1..Len(calls) : calls[c].status # "awaiting"

\* C25: whenever no fetch is in flight, App.filteredData is
\* Filters.applyFilters(App.rawData) under the current searchQuery,
\* selectedVendors, selectedAgencies and sortBy
C25_ShownIsFiltered ==
    NoFetchInFlight =>
        filteredData = applyFilters(rawData, searchQuery, selectedVendors,
                                    selectedAgencies, sortBy)

\* the same as a property of the steps that call App.applyClientFilters: clicks
\* on cells with an amount and on nodes not yet selected
C25_FilteredWhenApplied ==
    [][ ( /\ \/ \E i \in 1..Len(sankeyChart.nodes) : SankeyNodeClick(i)
             \/ \E i \in 1..Len(matrixChart.vendorOrder) :
                    \E j \in 1..Len(matrixChart.agencyOrder) : MatrixCellClick(i, j)
          /\ filteredData' # filteredData )
        => filteredData' = applyFilters(rawData', searchQuery', selectedVendors',
                                        selectedAgencies', sortBy') ]_vars


\* ---------------------------------------------------------------------------
\* The loading overlay
\* ---------------------------------------------------------------------------

FetchInFlight == \E c \in 1..Len(calls) : calls[c].status = "awaiting"

\* C26: the loading overlay is visible exactly while at least one fetch is in
\* flight, also when App.fetchAndRender calls overlap or a fetch fails
C26_OverlayWhileFetching == loading = FetchInFlight

\* the same while a single App.fetchAndRender call has been made
C26_OverlayWithoutOverlap == Len(calls) <= 1 => loading = FetchInFlight


\* ---------------------------------------------------------------------------
\* Termination of API.fetchAll
\* ---------------------------------------------------------------------------

\* every page request completes: the page awaited by a call arrives or fails
RequestCompletes(c) ==
    /\ c \in 1..Len(calls)
    /\ \/ \E n \in PageLengths : FetchPageReturns(c, n)
       \/ FetchPageThrows(c)

\* SpecFetch with every page request completing: fetch settles each promise it
\* returns, so no call stays at its await for ever
SpecFetchFair == SpecFetch /\ \A c \in 1..MaxCalls : WF_vars(RequestCompletes(c))

\* the call has returned or thrown
Settled(call) == call.status \in { "returned", "thrown" }

\* the k-th request of a call asks for the rows from (k - 1) * PAGE_SIZE on
RequestsInOrder(call) ==
    \A k \in 1..Len(call.requests) : call.requests[k].offset = (k - 1) * PAGE_SIZE

\* C27: API.fetchAll issues at most 11 page requests, at the offsets 0, 10000,
\* ..., 100000 in this order, and when every page request completes the call
\* returns or fails
C27_FetchAllTerminates ==
    /\ [] \A c \in 1..Len(calls) :
              /\ Len(calls[c].requests) <= 11
              /\ RequestsInOrder(calls[c])
              /\ calls[c].requests[Len(calls[c].requests)].offset <= SafetyLimit
    /\ \A c \in 1..MaxCalls :
           ( Len(calls) >= c ) ~> ( Len(calls) >= c /\ Settled(calls[c]) )

\* a call has issued all eleven requests and settled
C27_Witness ==
    \E c \in 1..Len(calls) :
        /\ Len(calls[c].requests) = 11
        /\ calls[c].requests[11].offset = SafetyLimit
        /\ Settled(calls[c])


-----------------------------------------------------------------------------
(* SpecDebounce: the search box, debounced by Utils.debounce (js/utils.js, *)
(* js/filters.js). Time passes in ticks; the wait of 300 ms is WaitTicks.   *)

\* the wait, in ticks
WaitTicks == 2
\* most input events in one behaviour
MaxTyped == 3

\* what the search box can hold when an input event is handled
TypedValues == { << >>, << "b" >>, << "A", "b" >>, << "X" >> }

\* a clearTimeout that leaves the pending timer set
clearNothing(active, handle) == active

\* clearTimeout(handle): the timer of this handle, if still set, is dropped;
\* any other value of handle (undefined, a timer that has run) changes nothing
clearTimeout(active, handle) ==
    LET Other(t) == t.id # handle
    IN  SelectSeq(active, Other)

\* setTimeout(later, wait), later holding the args of this call
setTimeout(table, args, wait) ==
    [ next |-> table.next + 1,
      active |-> Append(table.active, [ id |-> table.next, args |-> args,
                                        remaining |-> wait ]) ]

InitDebounce == InitClick

\* an input event on #global-search: debouncedSearch(e.target.value), which is
\* executedFunction(...args): clearTimeout(timeout); timeout = setTimeout(later, wait)
DebouncedCall(value) ==
    /\ burst.typed < MaxTyped
    /\ LET cleared == [ timers EXCEPT !.active = clearTimeout(timers.active, timeout) ]
       IN  /\ timers' = setTimeout(cleared, value, WaitTicks)
           /\ timeout' = cleared.next
    /\ burst' = [ burst EXCEPT !.typed = @ + 1, !.pending = @ + 1, !.last = value,
                               !.idle = 0,
                               !.started = IF burst.pending = 0 THEN @ + 1 ELSE @ ]
    /\ UNCHANGED << rawData, filteredData, activeTab, searchQuery, selectedVendors,
                    selectedAgencies, sortBy, stats, sankeyData, matrixData,
                    sankeyChart, matrixChart, loading, calls, frame >>

\* one tick passes: a timer may run from the tick on which its wait is over, and
\* may run later than that
Tick ==
    /\ \/ burst.idle < WaitTicks
       \/ \E k \in 1..Len(timers.active) : timers.active[k].remaining > 0
    /\ timers' = [ timers EXCEPT !.active =
                     [ k \in 1..Len(timers.active) |->
                         [ timers.active[k] EXCEPT !.remaining =
                             IF @ > 0 THEN @ - 1 ELSE 0 ] ] ]
    /\ burst' = [ burst EXCEPT !.idle = IF @ < WaitTicks THEN @ + 1 ELSE @ ]
    /\ UNCHANGED << rawData, filteredData, activeTab, searchQuery, selectedVendors,
                    selectedAgencies, sortBy, stats, sankeyData, matrixData,
                    sankeyChart, matrixChart, loading, calls, timeout, frame >>

\* the k-th timer runs: later() is clearTimeout(timeout); func(...args), func being
\* the function given in Filters.bindSearch: searchQuery is set and
\* App.applyClientFilters() called
TimeoutFires(k) ==
    /\ k \in 1..Len(timers.active)
    /\ timers.active[k].remaining = 0
    /\ LET args == timers.active[k].args
           run == [ j \in 1..(Len(timers.active) - 1) |->
                      timers.active[IF j < k THEN j ELSE j + 1] ]
       IN  /\ timers' = [ timers EXCEPT !.active = clearTimeout(run, timeout) ]
           /\ searchQuery' = args
           /\ ApplyClientFilters(rawData, args, selectedVendors, selectedAgencies, sortBy,
                                 activeTab, sankeyChart)
    /\ burst' = [ burst EXCEPT !.pending = 0, !.runs = @ + 1 ]
    /\ UNCHANGED << rawData, activeTab, selectedVendors, selectedAgencies, sortBy,
                    loading, calls, timeout, frame >>

NextDebounce ==
    \/ \E value \in TypedValues : DebouncedCall(value)
    \/ Tick
    \/ \E k \in 1..Len(timers.active) : TimeoutFires(k)

SpecDebounce == InitDebounce /\ [][NextDebounce]_vars

\* a timer whose wait is over runs: the TimeoutFires steps, told from all other
\* steps by the run they add to the history
TimerRuns ==
    /\ \E k \in 1..Len(timers.active) : timers.active[k].remaining = 0
    /\ burst' = [ burst EXCEPT !.pending = 0, !.runs = @ + 1 ]

\* time passes, and the event loop runs a timer whose wait is over
SpecDebounceFair == SpecDebounce /\ WF_vars(Tick) /\ WF_burst(TimerRuns)

\* C28: the function wrapped by Utils.debounce runs only when the wait has
\* passed without a further call, once for each burst of calls (the calls made
\* from one run of the wrapped function to the next), with the argument of the
\* last call: after a burst of search inputs searchQuery is set once, to the
\* last value typed, and the client filters are applied once
C28_OncePerBurstWithLastArgs ==
    /\ [][ \A k \in 1..Len(timers.active) :
               TimeoutFires(k) =>
                   /\ burst.pending > 0
                   /\ burst.idle = WaitTicks
                   /\ searchQuery' = burst.last
                   /\ filteredData' = applyFilters(rawData, burst.last, selectedVendors,
                                                   selectedAgencies, sortBy) ]_vars
    /\ [] ( /\ Len(timers.active) = ( IF burst.pending > 0 THEN 1 ELSE 0 )
            /\ burst.started = burst.runs + ( IF burst.pending > 0 THEN 1 ELSE 0 ) )
    /\ ( burst.pending > 0 ) ~> ( burst.pending = 0 /\ searchQuery = burst.last )

\* a burst of two inputs has been answered by one run, with the second value
C28_Witness ==
    /\ burst.typed = 2
    /\ burst.started = 1
    /\ burst.runs = 1
    /\ burst.last = << "A", "b" >>
    /\ searchQuery = << "A", "b" >>
    /\ Len(filteredData) < Len(rawData)


\* ---------------------------------------------------------------------------
\* Every record is counted once
\* ---------------------------------------------------------------------------

\* how often the record r is in the contracts lists of the links
InContracts(links, r) ==
    SumSeq([ k \in 1..Len(links) |-> Occurrences(links[k].contracts, r) ])

\* the sum of count over the cells of the matrix
CellCountSum(matrix) == SumSeq([ i \in 1..Len(matrix) |-> SumSeq(RowCounts(matrix[i])) ])

\* the links: every record in one contracts list, count the length of the list,
\* the counts adding up to the number of records
LinksCountEachRecordOnce ==
    sankeyData.called =>
        /\ \A r \in Range(filteredData) :
               InContracts(sankeyData.links, r) = Occurrences(filteredData, r)
        /\ \A k \in 1..Len(sankeyData.links) :
               sankeyData.links[k].count = Len(sankeyData.links[k].contracts)
        /\ SumSeq(CountsOf(sankeyData.links)) = Len(filteredData)

\* C29 (as claimed): each input record is in the contracts list of exactly one
\* link, the count of each link is the length of its contracts list, and the
\* sum of the link counts, like the sum of the matrix cell counts, is the
\* number of input records
C29_EveryRecordCountedOnce ==
    /\ LinksCountEachRecordOnce
    /\ matrixData.called => CellCountSum(matrixData.matrix) = Len(filteredData)

\* the same on record sets in which no name holds the separator of the keys
C29_WithoutSeparator ==
    ( \A r \in Range(filteredData) :
          \A i \in 1..Len(r.vendor_name \o r.agency_name) :
              (r.vendor_name \o r.agency_name)[i] # "|" )
    => C29_EveryRecordCountedOnce


\* ---------------------------------------------------------------------------
\* The two selection lists
\* ---------------------------------------------------------------------------

NoSelectionTwice == NoNameTwice(selectedVendors) /\ NoNameTwice(selectedAgencies)

\* a click on the remove mark of a tag takes the name of the tag, and nothing
\* else, out of its list
TagRemovalIsExact ==
    /\ \A k \in 1..Len(selectedVendors) :
           RemoveVendorTag(k) =>
               /\ selectedVendors' = Without(selectedVendors, selectedVendors[k])
               /\ selectedAgencies' = selectedAgencies
    /\ \A k \in 1..Len(selectedAgencies) :
           RemoveAgencyTag(k) =>
               /\ selectedAgencies' = Without(selectedAgencies, selectedAgencies[k])
               /\ selectedVendors' = selectedVendors

\* C30 (as claimed): selectedVendors and selectedAgencies never contain the same
\* name twice, and removing a tag removes exactly the name of the tag and leaves
\* the other selection list unchanged
C30_SelectionsAreSets == []NoSelectionTwice /\ [][TagRemovalIsExact]_vars

\* the part about duplicates alone
C30_NoNameTwice == NoSelectionTwice

\* the part about tag removal, for names without a double quote
C30_ExactWithoutQuote ==
    [][ ( \A k \in 1..Len(selectedVendors) : DatasetValue(selectedVendors[k]) = selectedVendors[k] )
        => TagRemovalIsExact ]_vars

-----------------------------------------------------------------------------
(* SpecResize: the window is resized while the views are filtered          *)

\* most resize listeners registered in SpecResize
MaxListeners == 4

ResizeQueries == { << >>, << "z" >>, << "Y" >> }

InitResize == InitClick

\* the window is resized: the container takes the width w, and every listener
\* registered by SankeyChart.init restarts the timer of its debounced callback
WindowResize(w) ==
    /\ sankeyChart.listeners < MaxListeners
    /\ sankeyChart' = [ sankeyChart EXCEPT !.rect = w, !.resize = sankeyChart.listeners ]
    /\ UNCHANGED << rawData, filteredData, activeTab, searchQuery, selectedVendors,
                    selectedAgencies, sortBy, stats, sankeyData, matrixData,
                    matrixChart, loading, calls >>
    /\ UNCHANGED << timers, timeout, burst, frame >>

\* the debounced callback of one resize listener runs, 250 ms after the last
\* resize: if (this.lastData) this.render(this.lastData), whatever the active tab
ResizeHandler ==
    /\ sankeyChart.resize > 0
    /\ LET pane == [ sankeyChart EXCEPT !.resize = sankeyChart.resize - 1 ]
       IN  IF Len(pane.lastData) = 0
           THEN sankeyChart' = pane /\ UNCHANGED sankeyData
           ELSE /\ sankeyData' = WithCalled(aggregateForSankey(pane.lastData, sortBy))
                /\ sankeyChart' = SankeyRender(pane.lastData, sankeyData', pane)
    /\ UNCHANGED << rawData, filteredData, activeTab, searchQuery, selectedVendors,
                    selectedAgencies, sortBy, stats, matrixData, matrixChart,
                    loading, calls >>
    /\ UNCHANGED << timers, timeout, burst, frame >>

NextResize ==
    \/ \E value \in ResizeQueries : SearchInput(value)
    \/ \E t \in { "sankey", "matrix" } : SwitchTab(t)
    \/ \E w \in ContainerWidths : WindowResize(w)
    \/ ResizeHandler

SpecResize == InitResize /\ [][NextResize]_vars

\* the graph view shows records although no record is filtered in
StaleGraph ==
    /\ filteredData = << >>
    /\ activeTab = "sankey"
    /\ sankeyChart.state = "drawn"

\* the graph view goes on showing its empty state although records are filtered in
StuckEmpty ==
    /\ filteredData # << >>
    /\ activeTab = "sankey"
    /\ sankeyChart.state = "empty"
    /\ sankeyData.called /\ Len(sankeyData.links) > 0

=============================================================================
